---- MODULE Spec2Model ----
(***************************************************************************)
(* The utility-class merge engine of twerge: the variant splitter, the     *)
(* classifier trie lookup, the merge algorithm with its candidate map, the *)
(* LRU cache in front of it and the shared class-name tables.              *)
(*                                                                         *)
(* A Go string is modelled as a sequence of one-character strings, so that *)
(* slicing, splitting, joining and concatenation are computed as the code  *)
(* computes them.  A Go panic is modelled by the value Panic.              *)
(***************************************************************************)
EXTENDS Integers, Sequences, FiniteSets, TLC

(***************************************************************************)
(* Bounds of the model.                                                    *)
(***************************************************************************)
MaxTokens == 3
MaxCalls == 2
NumThreads == 2

(***************************************************************************)
(* Strings.                                                                *)
(***************************************************************************)
Panic == <<"#panic">>

\* The characters of the model, in ASCII order.
AsciiOrder ==
    << " ", "!", "%", "&", "(", ")", "*", "+", "-", ".", "/",
       "0", "1", "2", "3", "4", "5", "6", "7", "8", "9",
       ":", ">", "[", "]", "_",
       "a", "b", "c", "d", "e", "f", "g", "h", "i", "j", "k", "l", "m",
       "n", "o", "p", "q", "r", "s", "t", "u", "v", "w", "x", "y", "z" >>

Ord(c) == CHOOSE i \in 1..Len(AsciiOrder) : AsciiOrder[i] = c

Digits == {"0", "1", "2", "3", "4", "5", "6", "7", "8", "9"}

\* s[from:to] of Go, with 0-based bounds.
Slice(s, from, to) == SubSeq(s, from + 1, to)

\* Go's < on strings: bytewise lexicographic order.
RECURSIVE StrLess(_, _)
StrLess(a, b) ==
    IF b = <<>> THEN FALSE
    ELSE IF a = <<>> THEN TRUE
    ELSE IF a[1] # b[1] THEN Ord(a[1]) < Ord(b[1])
    ELSE StrLess(Tail(a), Tail(b))

HasPrefix(s, p) == Len(s) >= Len(p) /\ SubSeq(s, 1, Len(p)) = p

HasSuffix(s, p) == Len(s) >= Len(p) /\ SubSeq(s, Len(s) - Len(p) + 1, Len(s)) = p

Contains(s, sub) ==
    \E i \in 0..(Len(s) - Len(sub)) : SubSeq(s, i + 1, i + Len(sub)) = sub

\* strings.Index(s, <<c>>) for a single character c: 0-based, -1 when absent.
IndexChar(s, c) ==
    IF \E i \in 1..Len(s) : s[i] = c
    THEN (CHOOSE i \in 1..Len(s) : s[i] = c /\ \A j \in 1..(i - 1) : s[j] # c) - 1
    ELSE -1

\* strings.TrimSpace: the model's only white space character is " ".
RECURSIVE TrimLeft(_)
TrimLeft(s) == IF s # <<>> /\ s[1] = " " THEN TrimLeft(Tail(s)) ELSE s

RECURSIVE TrimRight(_)
TrimRight(s) ==
    IF s # <<>> /\ s[Len(s)] = " " THEN TrimRight(SubSeq(s, 1, Len(s) - 1)) ELSE s

TrimSpace(s) == TrimRight(TrimLeft(s))

\* strings.Split(s, sep) for a one-character separator: n separators give
\* n + 1 parts, empty parts included.
RECURSIVE Split(_, _)
Split(s, sep) ==
    LET i == IndexChar(s, sep)
    IN  IF i = -1 THEN <<s>>
        ELSE <<Slice(s, 0, i)>> \o Split(Slice(s, i + 1, Len(s)), sep)

\* strings.Join(parts, sep).
RECURSIVE Join(_, _)
Join(parts, sep) ==
    IF parts = <<>> THEN <<>>
    ELSE IF Len(parts) = 1 THEN parts[1]
    ELSE parts[1] \o sep \o Join(Tail(parts), sep)

\* slices.Sort on a []string: insertion into the sorted tail.
RECURSIVE SortInsert(_, _)
SortInsert(x, sortedSeq) ==
    IF sortedSeq = <<>> THEN <<x>>
    ELSE IF StrLess(sortedSeq[1], x) THEN <<sortedSeq[1]>> \o SortInsert(x, Tail(sortedSeq))
    ELSE <<x>> \o sortedSeq

RECURSIVE SortStrings(_)
SortStrings(strs) ==
    IF strs = <<>> THEN <<>> ELSE SortInsert(strs[1], SortStrings(Tail(strs)))

(***************************************************************************)
(* Configuration (the defaults of DefaultConfig).                          *)
(***************************************************************************)
ModifierSeparator == ":"
ClassSeparator == "-"
ImportantModifier == "!"
PostfixModifier == "/"

(***************************************************************************)
(* Validators.  ParseFloat and Atoi are modelled on decimal numerals, the  *)
(* only numerals of the model's tokens.                                    *)
(***************************************************************************)
AllDigits(s) == s # <<>> /\ \A i \in 1..Len(s) : s[i] \in Digits

Unsigned(s) == IF s # <<>> /\ s[1] \in {"+", "-"} THEN Tail(s) ELSE s

isInteger(val) == AllDigits(Unsigned(val))

isFloat(val) ==
    LET u == Unsigned(val)
        dot == IndexChar(u, ".")
    IN  IF dot = -1 THEN AllDigits(u)
        ELSE LET whole == Slice(u, 0, dot)
                 frac == Slice(u, dot + 1, Len(u))
             IN  /\ whole \o frac # <<>>
                 /\ whole = <<>> \/ AllDigits(whole)
                 /\ frac = <<>> \/ AllDigits(frac)

isNumber(val) == isInteger(val) \/ isFloat(val)

isFraction(val) ==
    LET i == IndexChar(val, "/")
    IN  i # -1 /\ AllDigits(Slice(val, 0, i)) /\ AllDigits(Slice(val, i + 1, Len(val)))

stringLengths == {<<"p", "x">>, <<"f", "u", "l", "l">>, <<"s", "c", "r", "e", "e", "n">>}

isLength(val) == isNumber(val) \/ val \in stringLengths \/ isFraction(val)

isAny(val) == TRUE

isNever(val) == FALSE

Letters ==
    {"a", "b", "c", "d", "e", "f", "g", "h", "i", "j", "k", "l", "m",
     "n", "o", "p", "q", "r", "s", "t", "u", "v", "w", "x", "y", "z"}

\* The longest prefix of s made of characters of set.
RECURSIVE PrefixRun(_, _)
PrefixRun(s, set) ==
    IF s # <<>> /\ s[1] \in set THEN <<s[1]>> \o PrefixRun(Tail(s), set) ELSE <<>>

\* arbitraryRegex.FindStringSubmatch(val): ^\[(?:([a-z-]+):)?(.+)\]$
\* gives the label (group 1, empty when absent) and the value (group 2).
arbitraryRegex(val) ==
    IF Len(val) >= 3 /\ val[1] = "[" /\ val[Len(val)] = "]"
    THEN LET inner == Slice(val, 1, Len(val) - 1)
             run == PrefixRun(inner, Letters \cup {"-"})
         IN  IF /\ run # <<>>
                /\ Len(inner) >= Len(run) + 2
                /\ inner[Len(run) + 1] = ":"
             THEN [match |-> TRUE, label |-> run,
                   value |-> Slice(inner, Len(run) + 1, Len(inner))]
             ELSE [match |-> TRUE, label |-> <<>>, value |-> inner]
    ELSE [match |-> FALSE, label |-> <<>>, value |-> <<>>]

isArbitraryValue(val) == arbitraryRegex(val).match

lengthUnits ==
    {<<"%">>, <<"p", "x">>, <<"e", "m">>, <<"r", "e", "m">>, <<"p", "t">>, <<"p", "c">>, <<"i", "n">>, <<"c", "m">>, <<"m", "m">>, <<"c", "a", "p">>, <<"c", "h">>, <<"e", "x">>,
     <<"l", "h">>, <<"r", "l", "h">>}
    \cup {p \o <<"v">> \o u : p \in {<<>>, <<"s">>, <<"d">>, <<"l">>},
                          u \in {<<"h">>, <<"w">>, <<"i">>, <<"b">>, <<"m", "i", "n">>, <<"m", "a", "x">>}}
    \cup {<<"c", "q">> \o u : u \in {<<"w">>, <<"h">>, <<"i">>, <<"b">>, <<"m", "i", "n">>, <<"m", "a", "x">>}}

WordChars == Letters \cup Digits \cup {"_"}

\* \b(name)\(.+\) found somewhere in val, name being one of names.
ContainsCall(val, names) ==
    \E n \in names : \E i \in 0..(Len(val) - Len(n) - 3) :
        /\ Slice(val, i, i + Len(n) + 1) = n \o <<"(">>
        /\ i = 0 \/ val[i] \notin WordChars
        /\ \E j \in (i + Len(n) + 3)..Len(val) : val[j] = ")"

\* lengthUnitRegex.MatchString(val)
lengthUnitRegex(val) ==
    \/ \E d \in Digits : \E u \in lengthUnits : Contains(val, <<d>> \o u)
    \/ ContainsCall(val, {<<"c", "a", "l", "c">>, <<"m", "i", "n">>, <<"m", "a", "x">>, <<"c", "l", "a", "m", "p">>})
    \/ val = <<"0">>

\* ^(name)\(.+\)$ for one of names.
IsCall(val, names) ==
    \E n \in names :
        /\ HasPrefix(val, n \o <<"(">>)
        /\ HasSuffix(val, <<")">>)
        /\ Len(val) >= Len(n) + 3

\* colorFnRegex.MatchString(val)
colorFnRegex(val) ==
    IsCall(val, {<<"r", "g", "b">>, <<"r", "g", "b", "a">>, <<"h", "s", "l">>, <<"h", "s", "l", "a">>, <<"h", "w", "b">>, <<"l", "a", "b">>, <<"l", "c", "h">>, <<"o", "k", "l", "a", "b">>, <<"o", "k", "l", "c", "h">>})

isLengthOnly(val) == lengthUnitRegex(val) /\ ~colorFnRegex(val)

isImage(val) ==
    IsCall(val, {<<"u", "r", "l">>, <<"i", "m", "a", "g", "e">>, <<"i", "m", "a", "g", "e", "-", "s", "e", "t">>, <<"c", "r", "o", "s", "s", "-", "f", "a", "d", "e">>, <<"e", "l", "e", "m", "e", "n", "t">>}
                \cup {r \o k \o <<"-", "g", "r", "a", "d", "i", "e", "n", "t">> : r \in {<<>>, <<"r", "e", "p", "e", "a", "t", "i", "n", "g", "-">>},
                                               k \in {<<"l", "i", "n", "e", "a", "r">>, <<"r", "a", "d", "i", "a", "l">>, <<"c", "o", "n", "i", "c">>}})

sizeLabels == {<<"l", "e", "n", "g", "t", "h">>, <<"s", "i", "z", "e">>, <<"p", "e", "r", "c", "e", "n", "t", "a", "g", "e">>}

imageLabels == {<<"i", "m", "a", "g", "e">>, <<"u", "r", "l">>}

\* GetIsArbitraryValue(val, label, testValue): labels is the set of accepted
\* labels (one string, or the keys of the map), testValue the name of the
\* predicate applied to an unlabelled value.
GetIsArbitraryValue(val, labels, testValue) ==
    LET res == arbitraryRegex(val)
    IN  IF res.match
        THEN IF res.label # <<>>
             THEN res.label \in labels
             ELSE CASE testValue = "isLengthOnly" -> isLengthOnly(res.value)
                    [] testValue = "isNumber" -> isNumber(res.value)
                    [] testValue = "isNever" -> isNever(res.value)
                    [] testValue = "isImage" -> isImage(res.value)
        ELSE FALSE

isArbitraryLength(val) == GetIsArbitraryValue(val, {<<"l", "e", "n", "g", "t", "h">>}, "isLengthOnly")

IsArbitraryNumber(val) == GetIsArbitraryValue(val, {<<"n", "u", "m", "b", "e", "r">>}, "isNumber")

isArbitraryPosition(val) == GetIsArbitraryValue(val, {<<"p", "o", "s", "i", "t", "i", "o", "n">>}, "isNever")

isArbitrarySize(val) == GetIsArbitraryValue(val, sizeLabels, "isNever")

isArbitraryImage(val) == GetIsArbitraryValue(val, imageLabels, "isImage")

\* validator.Fn(val) for the validator named fn.
ApplyValidator(fn, val) ==
    CASE fn = "isAny" -> isAny(val)
      [] fn = "isLength" -> isLength(val)
      [] fn = "isNumber" -> isNumber(val)
      [] fn = "isArbitraryValue" -> isArbitraryValue(val)
      [] fn = "isArbitraryLength" -> isArbitraryLength(val)
      [] fn = "IsArbitraryNumber" -> IsArbitraryNumber(val)
      [] fn = "isArbitraryPosition" -> isArbitraryPosition(val)
      [] fn = "isArbitrarySize" -> isArbitrarySize(val)
      [] fn = "isArbitraryImage" -> isArbitraryImage(val)

(***************************************************************************)
(* The classifier trie and the conflict table: the padding, background and *)
(* container entries of DefaultConfig.  A ClassPart whose NextPart is nil  *)
(* has the empty function as NextPart.                                     *)
(***************************************************************************)
ZeroPart == [NextPart |-> <<>>, Validators |-> <<>>, ClassGroupID |-> <<>>]

Terminal(groupID) == [NextPart |-> <<>>, Validators |-> <<>>, ClassGroupID |-> groupID]

Validator(fn, groupID) == [Fn |-> fn, ClassGroupID |-> groupID]

Spacing(groupID) ==
    [NextPart |-> <<>>,
     Validators |-> << Validator("isArbitraryValue", groupID),
                       Validator("isLength", groupID),
                       Validator("isArbitraryLength", groupID) >>,
     ClassGroupID |-> <<>>]

Background ==
    [NextPart |->
        (<<"f", "i", "x", "e", "d">> :> Terminal(<<"b", "g", "-", "a", "t", "t", "a", "c", "h", "m", "e", "n", "t">>))
        @@ (<<"o", "p", "a", "c", "i", "t", "y">> :>
              [NextPart |-> <<>>,
               Validators |-> << Validator("isNumber", <<"b", "g", "-", "o", "p", "a", "c", "i", "t", "y">>),
                                 Validator("IsArbitraryNumber", <<"b", "g", "-", "o", "p", "a", "c", "i", "t", "y">>) >>,
               ClassGroupID |-> <<>>])
        @@ (<<"l", "e", "f", "t">> :>
              [NextPart |-> (<<"b", "o", "t", "t", "o", "m">> :> Terminal(<<"b", "g", "-", "p", "o", "s", "i", "t", "i", "o", "n">>))
                            @@ (<<"t", "o", "p">> :> Terminal(<<"b", "g", "-", "p", "o", "s", "i", "t", "i", "o", "n">>)),
               Validators |-> <<>>,
               ClassGroupID |-> <<"b", "g", "-", "p", "o", "s", "i", "t", "i", "o", "n">>])
        @@ (<<"n", "o", "n", "e">> :> Terminal(<<"b", "g", "-", "i", "m", "a", "g", "e">>)),
     Validators |-> << Validator("isArbitraryPosition", <<"b", "g", "-", "p", "o", "s", "i", "t", "i", "o", "n">>),
                       Validator("isArbitrarySize", <<"b", "g", "-", "s", "i", "z", "e">>),
                       Validator("isArbitraryImage", <<"b", "g", "-", "i", "m", "a", "g", "e">>),
                       Validator("isAny", <<"b", "g", "-", "c", "o", "l", "o", "r">>) >>,
     ClassGroupID |-> <<>>]

ClassGroups ==
    [NextPart |->
        (<<"c", "o", "n", "t", "a", "i", "n", "e", "r">> :> Terminal(<<"c", "o", "n", "t", "a", "i", "n", "e", "r">>))
        @@ (<<"p">> :> Spacing(<<"p">>))
        @@ (<<"p", "x">> :> Spacing(<<"p", "x">>))
        @@ (<<"p", "r">> :> Spacing(<<"p", "r">>))
        @@ (<<"b", "g">> :> Background),
     Validators |-> <<>>,
     ClassGroupID |-> <<>>]

ConflictingClassGroups ==
    (<<"p">> :> << <<"p", "x">>, <<"p", "y">>, <<"p", "s">>, <<"p", "e">>, <<"p", "t">>, <<"p", "r">>, <<"p", "b">>, <<"p", "l">> >>)
    @@ (<<"p", "x">> :> << <<"p", "r">>, <<"p", "l">> >>)
    @@ (<<"p", "y">> :> << <<"p", "t">>, <<"p", "b">> >>)

(***************************************************************************)
(* Classifier trie lookup.                                                 *)
(***************************************************************************)
NotTwClass == [panic |-> FALSE, isTwClass |-> FALSE, groupID |-> <<>>]

TwClass(groupID) == [panic |-> FALSE, isTwClass |-> TRUE, groupID |-> groupID]

\* classMap.NextPart[part]: the zero ClassPart when the key is absent.
NextPartOf(classMap, part) ==
    IF part \in DOMAIN classMap.NextPart THEN classMap.NextPart[part] ELSE ZeroPart

\* The first validator, in declared order, that accepts remainingClass.
FirstValidator(validators, remainingClass) ==
    LET hits == {k \in 1..Len(validators) :
                    ApplyValidator(validators[k].Fn, remainingClass)}
    IN  IF hits = {} THEN NotTwClass
        ELSE TwClass(validators[CHOOSE k \in hits : \A j \in hits : k <= j].ClassGroupID)

\* A lookup that consults the validators of a node before it descends.
RECURSIVE lookupValidatorsFirst(_, _, _)
lookupValidatorsFirst(classParts, i, classMap) ==
    IF i >= Len(classParts)
    THEN IF classMap.ClassGroupID # <<>> THEN TwClass(classMap.ClassGroupID) ELSE NotTwClass
    ELSE IF FirstValidator(classMap.Validators,
                           Join(SubSeq(classParts, i + 1, Len(classParts)),
                                <<ClassSeparator>>)).isTwClass
    THEN FirstValidator(classMap.Validators,
                        Join(SubSeq(classParts, i + 1, Len(classParts)), <<ClassSeparator>>))
    ELSE IF DOMAIN classMap.NextPart # {}
    THEN lookupValidatorsFirst(classParts, i + 1, NextPartOf(classMap, classParts[i + 1]))
    ELSE NotTwClass

\* i is the 0-based index of the next class part.  Descending into a
\* NextPart that has no entry for the part reaches the zero ClassPart, where
\* the lookup fails, as it does when NextPart is nil.
RECURSIVE getClassGroupIDRecursive(_, _, _)
getClassGroupIDRecursive(classParts, i, classMap) ==
    IF i >= Len(classParts)
    THEN IF classMap.ClassGroupID # <<>> THEN TwClass(classMap.ClassGroupID) ELSE NotTwClass
    ELSE LET deeper ==
                 IF DOMAIN classMap.NextPart # {}
                 THEN getClassGroupIDRecursive(classParts, i + 1,
                                               NextPartOf(classMap, classParts[i + 1]))
                 ELSE NotTwClass
         IN  IF deeper.isTwClass THEN deeper
             ELSE IF Len(classMap.Validators) > 0
             THEN FirstValidator(classMap.Validators,
                                 Join(SubSeq(classParts, i + 1, Len(classParts)),
                                      <<ClassSeparator>>))
             ELSE NotTwClass

\* arbitraryPropertyRegex is ^\[(.+)\]$; slicing up to strings.Index = -1
\* panics.
getGroupIDForArbitraryProperty(class) ==
    IF Len(class) >= 3 /\ class[1] = "[" /\ class[Len(class)] = "]"
    THEN LET arbitraryPropertyClassName == Slice(class, 1, Len(class) - 1)
             colon == IndexChar(arbitraryPropertyClassName, ":")
         IN  IF colon = -1 THEN [panic |-> TRUE, isTwClass |-> FALSE, groupID |-> <<>>]
             ELSE IF Slice(arbitraryPropertyClassName, 0, colon) # <<>>
             THEN TwClass(<<"a", "r", "b", "i", "t", "r", "a", "r", "y", ".", ".">> \o Slice(arbitraryPropertyClassName, 0, colon))
             ELSE NotTwClass
    ELSE NotTwClass

getClassGroupID(baseClass) ==
    LET split == Split(baseClass, ClassSeparator)
        classParts == IF Len(split) > 0 /\ split[1] = <<>> THEN Tail(split) ELSE split
        found == getClassGroupIDRecursive(classParts, 0, ClassGroups)
    IN  IF found.isTwClass THEN found ELSE getGroupIDForArbitraryProperty(baseClass)

(***************************************************************************)
(* Variant splitter.                                                       *)
(***************************************************************************)
\* The scan over className[i:], i 0-based, with the loop's locals in st.
RECURSIVE splitScan(_, _, _)
splitScan(className, i, st) ==
    IF i >= Len(className) THEN st
    ELSE LET char == className[i + 1]
         IN  IF char = "["
             THEN splitScan(className, i + 1, [st EXCEPT !.bracketDepth = @ + 1])
             ELSE IF char = "]"
             THEN splitScan(className, i + 1, [st EXCEPT !.bracketDepth = @ - 1])
             ELSE IF st.bracketDepth = 0 /\ char = ModifierSeparator
             THEN splitScan(className, i + 1,
                      [st EXCEPT !.modifiers = Append(@, Slice(className, st.modifierStart, i)),
                                 !.modifierStart = i + 1])
             ELSE IF st.bracketDepth = 0 /\ char = PostfixModifier
             THEN splitScan(className, i + 1, [st EXCEPT !.maybePostfixModPosition = i])
             ELSE splitScan(className, i + 1, st)

\* Indexing the empty baseClassWithImportant panics.
splitModifiers(className) ==
    LET st == splitScan(className, 0,
                        [modifiers |-> <<>>, modifierStart |-> 0, bracketDepth |-> 0,
                         maybePostfixModPosition |-> -1])
        baseClassWithImportant == Slice(className, st.modifierStart, Len(className))
    IN  IF baseClassWithImportant = <<>>
        THEN [panic |-> TRUE]
        ELSE LET hasImportant == baseClassWithImportant[1] = ImportantModifier
             IN  [panic |-> FALSE,
                  baseClass |-> IF hasImportant THEN Tail(baseClassWithImportant)
                                ELSE baseClassWithImportant,
                  modifiers |-> st.modifiers,
                  hasImportant |-> hasImportant,
                  maybePostfixModPosition |->
                      IF /\ st.maybePostfixModPosition # -1
                         /\ st.maybePostfixModPosition > st.modifierStart
                      THEN st.maybePostfixModPosition - st.modifierStart
                      ELSE -1]

(***************************************************************************)
(* Modifier canonicalization.                                              *)
(***************************************************************************)
\* make([]string, n): n empty strings.
MakeStrings(n) == [k \in 1..n |-> <<>>]

\* The loop of sortModifiers from the i-th modifier (1-based) on; indexing
\* an empty modifier panics.
RECURSIVE sortLoop(_, _, _, _)
sortLoop(modifiers, i, unsortedModifiers, sorted) ==
    IF i > Len(modifiers)
    THEN [panic |-> FALSE, modifiers |-> sorted \o SortStrings(unsortedModifiers)]
    ELSE IF modifiers[i] = <<>>
    THEN [panic |-> TRUE, modifiers |-> <<>>]
    ELSE IF modifiers[i][1] = "["
    THEN sortLoop(modifiers, i + 1, <<>>,
                  (sorted \o SortStrings(unsortedModifiers)) \o <<modifiers[i]>>)
    ELSE sortLoop(modifiers, i + 1, Append(unsortedModifiers, modifiers[i]), sorted)

\* Faulty variant of sortModifiers, for showing that a property depends on it:
\* sortModifiers that leaves the modifiers as they are written.
sortModifiersKeepOrder(modifiers) ==
    IF Len(modifiers) < 2
    THEN [panic |-> FALSE, modifiers |-> modifiers]
    ELSE IF \E i \in DOMAIN modifiers : modifiers[i] = <<>>
    THEN [panic |-> TRUE, modifiers |-> <<>>]
    ELSE [panic |-> FALSE, modifiers |-> MakeStrings(Len(modifiers)) \o modifiers]

sortModifiers(modifiers) ==
    IF Len(modifiers) < 2
    THEN [panic |-> FALSE, modifiers |-> modifiers]
    ELSE sortLoop(modifiers, 1, <<>>, MakeStrings(Len(modifiers)))

(***************************************************************************)
(* Merge engine.                                                           *)
(***************************************************************************)
\* Faulty variant of StoreClass, for showing that a property depends on it:
\* unqClasses[key] = class only when the key holds no class yet.
StoreFirst(unqClasses, key, class) ==
    IF key \in DOMAIN unqClasses /\ unqClasses[key] # <<>>
    THEN unqClasses
    ELSE (key :> class) @@ unqClasses

\* unqClasses[key] = class
StoreClass(unqClasses, key, class) == (key :> class) @@ unqClasses

\* Faulty variant of EraseConflicts, for showing that a property depends on it:
\* The erasing loop started at the second conflict.
RECURSIVE EraseTail(_, _, _)
EraseTail(unqClasses, conflicts, suffix) ==
    IF Len(conflicts) < 2 THEN unqClasses
    ELSE EraseTail(((conflicts[2] \o suffix) :> <<>>) @@ unqClasses,
                   Tail(conflicts), suffix)

\* for _, conflict := range conflicts { unqClasses[conflict+suffix] = "" }
RECURSIVE EraseConflicts(_, _, _)
EraseConflicts(unqClasses, conflicts, suffix) ==
    IF conflicts = <<>> THEN unqClasses
    ELSE EraseConflicts(((conflicts[1] \o suffix) :> <<>>) @@ unqClasses,
                        Tail(conflicts), suffix)

\* resultClassList += class + " "
AppendClass(resultClassList, class) == (resultClassList \o class) \o <<" ">>

\* Faulty variant of ConflictsOf, for showing that a property depends on it:
\* Every group conflicts with itself as well.
ConflictsWithSelf(groupID) ==
    IF groupID \in DOMAIN ConflictingClassGroups
    THEN <<groupID>> \o ConflictingClassGroups[groupID] ELSE <<groupID>>

\* conf.ConflictingClassGroups[groupID], nil as the empty list.
ConflictsOf(groupID) ==
    IF groupID \in DOMAIN ConflictingClassGroups
    THEN ConflictingClassGroups[groupID] ELSE <<>>

\* The candidate key suffix of a recognized class: its sorted modifiers, the
\* important marker appended, joined by the modifier separator.
KeySuffix(modifiers, hasImportant) ==
    Join(IF hasImportant THEN Append(modifiers, <<ImportantModifier>>) ELSE modifiers,
         <<ModifierSeparator>>)

PanicState == [panic |-> TRUE, unqClasses |-> <<>>, resultClassList |-> <<>>]

\* Faulty variant of PassThrough, for showing that a property depends on it:
\* An unrecognized class goes to the result unless it is there already.
PassThroughOnce(st, class) ==
    IF \E i \in DOMAIN Split(TrimSpace(st.resultClassList), " ") :
           Split(TrimSpace(st.resultClassList), " ")[i] = class
    THEN st
    ELSE [st EXCEPT !.resultClassList = AppendClass(@, class)]

\* An unrecognized class goes to the result as it is.
PassThrough(st, class) == [st EXCEPT !.resultClassList = AppendClass(@, class)]

\* baseClass cut at the postfix modifier, when the splitter found one.
cutPostfix(sp) ==
    IF sp.maybePostfixModPosition # -1
    THEN Slice(sp.baseClass, 0, sp.maybePostfixModPosition)
    ELSE sp.baseClass

\* The recognized class is stored under its key and its conflicts are erased.
storeAndErase(st, class, groupID, suffix) ==
    [st EXCEPT !.unqClasses =
        EraseConflicts(StoreClass(@, groupID \o suffix, class),
                       ConflictsOf(groupID), suffix)]

\* The iteration once the modifiers of a recognized class are sorted.
mergeSorted(st, class, groupID, hasImportant, sorted) ==
    IF sorted.panic THEN PanicState
    ELSE storeAndErase(st, class, groupID, KeySuffix(sorted.modifiers, hasImportant))

\* The iteration once the base class is classified as id.
mergeClassified(st, class, sp, id) ==
    IF id.panic THEN PanicState
    ELSE IF ~id.isTwClass THEN PassThrough(st, class)
    ELSE mergeSorted(st, class, id.groupID, sp.hasImportant, sortModifiers(sp.modifiers))

\* The iteration once the class is split as sp.
mergeSplit(st, class, sp) ==
    IF sp.panic THEN PanicState
    ELSE mergeClassified(st, class, sp, getClassGroupID(cutPostfix(sp)))

\* One iteration of the loop over classes.
mergeClass(st, class) ==
    IF st.panic THEN st ELSE mergeSplit(st, class, splitModifiers(class))

RECURSIVE scanClasses(_, _)
scanClasses(st, classes) ==
    IF classes = <<>> THEN st
    ELSE scanClasses(mergeClass(st, classes[1]), Tail(classes))

\* The state of mergeClassList after its loop over the classes.
scanClassList(classList) ==
    scanClasses([panic |-> FALSE, unqClasses |-> <<>>, resultClassList |-> <<>>],
                Split(TrimSpace(classList), " "))

\* The orders in which `range unqClasses` can visit the entries that are not
\* erased (an erased entry is skipped wherever it comes).
MapOrders(unqClasses) ==
    LET live == {k \in DOMAIN unqClasses : unqClasses[k] # <<>>}
    IN  {order \in [1..Cardinality(live) -> live] :
            \A i, j \in 1..Cardinality(live) : i # j => order[i] # order[j]}

RECURSIVE emitClasses(_, _, _)
emitClasses(resultClassList, unqClasses, order) ==
    IF order = <<>> THEN resultClassList
    ELSE emitClasses(AppendClass(resultClassList, unqClasses[order[1]]),
                     unqClasses, Tail(order))

\* The second loop of mergeClassList and its return, the map being iterated
\* in the given order.
emitResult(st, order) ==
    IF st.panic THEN Panic
    ELSE TrimSpace(emitClasses(st.resultClassList, st.unqClasses, order))

\* The iteration orders the second loop can meet.
ScanOrders(st) == IF st.panic THEN {<<>>} ELSE MapOrders(st.unqClasses)

\* mergeClassList(classList) when the map is iterated in the given order.
mergeClassList(classList, order) == emitResult(scanClassList(classList), order)

MergeOrders(classList) == ScanOrders(scanClassList(classList))

(***************************************************************************)
(* LRU cache: a map from key to node and a doubly linked list of the nodes *)
(* between the sentinels tail (least recent side) and head.  Nodes live in *)
(* the sequence nodes and are named by their index; Nil is the nil pointer.*)
(***************************************************************************)
Nil == 0

MaxCacheSize == 2

NilCache == [isNil |-> TRUE]

NewNode(key, val) == [key |-> key, val |-> val, prev |-> Nil, next |-> Nil]

\* head is node 1 and tail node 2: tail.next = head, head.prev = tail.
Make(maxCapacity) ==
    [isNil |-> FALSE, panic |-> FALSE,
     maxCapacity |-> maxCapacity, capacity |-> 0,
     cache |-> <<>>, head |-> 1, tail |-> 2,
     nodes |-> << [NewNode(<<>>, <<>>) EXCEPT !.prev = 2],
                  [NewNode(<<>>, <<>>) EXCEPT !.next = 1] >>]

\* Dereferencing a nil neighbour panics.
insertRight(l, n) ==
    LET prev == l.nodes[l.head].prev
    IN  IF l.panic \/ prev = Nil THEN [l EXCEPT !.panic = TRUE]
        ELSE [l EXCEPT !.nodes[prev].next = n,
                       !.nodes[n].prev = prev,
                       !.nodes[n].next = l.head,
                       !.nodes[l.head].prev = n]

remove(l, n) ==
    LET prev == l.nodes[n].prev
        nxt == l.nodes[n].next
    IN  IF l.panic \/ prev = Nil \/ nxt = Nil THEN [l EXCEPT !.panic = TRUE]
        ELSE [l EXCEPT !.nodes[prev].next = nxt,
                       !.nodes[nxt].prev = prev,
                       !.nodes[n].prev = Nil,
                       !.nodes[n].next = Nil,
                       !.capacity = @ - 1]

\* l.cache[key], nil when absent.
NodeOf(l, key) == IF key \in DOMAIN l.cache THEN l.cache[key] ELSE Nil

\* delete(m, key)
Delete(m, key) == [k \in (DOMAIN m) \ {key} |-> m[k]]

\* Faulty variant of lruGet, for showing that a property depends on it:
\* Get that leaves the list as it is.
lruGetInPlace(l, key) ==
    IF NodeOf(l, key) = Nil THEN [l |-> l, val |-> <<>>]
    ELSE [l |-> l, val |-> l.nodes[NodeOf(l, key)].val]

\* Get run without interruption: the cache afterwards and the value returned.
lruGet(l, key) ==
    LET n == NodeOf(l, key)
    IN  IF n = Nil THEN [l |-> l, val |-> <<>>]
        ELSE [l |-> insertRight(remove(l, n), n), val |-> l.nodes[n].val]

\* The eviction step of Set.
evict(l) ==
    IF l.capacity > l.maxCapacity
    THEN LET first == l.nodes[l.tail].next
         IN  remove([l EXCEPT !.cache = Delete(@, l.nodes[first].key)], first)
    ELSE l

\* Set run without interruption.
lruSet(l, key, value) ==
    LET removed == IF NodeOf(l, key) # Nil THEN remove(l, NodeOf(l, key)) ELSE l
        n == Len(removed.nodes) + 1
        stored == [removed EXCEPT !.nodes = Append(@, NewNode(key, value)),
                                  !.cache = (key :> n) @@ @]
    IN  evict(insertRight(stored, n))

(***************************************************************************)
(* Generated class names.  md5 and the base64 encoding of its first bytes  *)
(* are modelled by a positional checksum written in decimal: equal strings *)
(* get equal names and different strings may collide.                      *)
(***************************************************************************)
HashSpace == 4096

RECURSIVE Checksum(_, _)
Checksum(s, i) ==
    IF i > Len(s) THEN 0 ELSE (i * Ord(s[i]) + Checksum(s, i + 1)) % HashSpace

RECURSIVE Decimal(_)
Decimal(n) ==
    IF n < 10 THEN <<AsciiOrder[Ord("0") + n]>>
    ELSE Decimal(n \div 10) \o <<AsciiOrder[Ord("0") + (n % 10)]>>

\* "tw-" + base64.URLEncoding.EncodeToString(md5.Sum(merged))[:7]
ClassName(merged) == <<"t", "w", "-">> \o Decimal(Checksum(merged, 1))

(***************************************************************************)
(* Inputs: token lists over small families of tokens, joined by spaces.    *)
(***************************************************************************)
ConflictTokens ==
    {
    \* "p-4"
    <<"p", "-", "4">>,
    \* "p-8"
    <<"p", "-", "8">>,
    \* "px-2"
    <<"p", "x", "-", "2">>,
    \* "x:p-4"
    <<"x", ":", "p", "-", "4">>,
    \* "!p-4"
    <<"!", "p", "-", "4">>,
    \* "my-custom-class"
    <<"m", "y", "-", "c", "u", "s", "t", "o", "m", "-", "c", "l", "a", "s", "s">>
    }

VariantTokens ==
    {
    \* "hover:bg-red-500"
    <<"h", "o", "v", "e", "r", ":", "b", "g", "-", "r", "e", "d", "-", "5", "0", "0">>,
    \* "bg-blue-500"
    <<"b", "g", "-", "b", "l", "u", "e", "-", "5", "0", "0">>,
    \* "focus:hover:bg-red-500"
    <<"f", "o", "c", "u", "s", ":", "h", "o", "v", "e", "r", ":", "b", "g", "-", "r", "e", "d", "-", "5", "0", "0">>,
    \* "hover:focus:bg-red-500"
    <<"h", "o", "v", "e", "r", ":", "f", "o", "c", "u", "s", ":", "b", "g", "-", "r", "e", "d", "-", "5", "0", "0">>,
    \* "hover:[&>*]:focus:p-4"
    <<"h", "o", "v", "e", "r", ":", "[", "&", ">", "*", "]", ":", "f", "o", "c", "u", "s", ":", "p", "-", "4">>,
    \* "focus:[&>*]:hover:p-4"
    <<"f", "o", "c", "u", "s", ":", "[", "&", ">", "*", "]", ":", "h", "o", "v", "e", "r", ":", "p", "-", "4">>
    }

MalformedTokens ==
    {
    \* ""
    <<>>,
    \* "hover:"
    <<"h", "o", "v", "e", "r", ":">>,
    \* "hover::p-4"
    <<"h", "o", "v", "e", "r", ":", ":", "p", "-", "4">>,
    \* "[foo]"
    <<"[", "f", "o", "o", "]">>,
    \* "p-[4"
    <<"p", "-", "[", "4">>,
    \* "p-4"
    <<"p", "-", "4">>
    }

TokenFamilies == {ConflictTokens, VariantTokens, MalformedTokens}

TokenLists(tokens) == UNION {[1..n -> tokens] : n \in 1..MaxTokens}

Inputs == {Join(list, <<" ">>) : list \in UNION {TokenLists(f) : f \in TokenFamilies}}

\* The class lists concurrent callers share.
SharedInputs ==
    {
    \* "p-4 px-2"
    <<"p", "-", "4", " ", "p", "x", "-", "2">>,
    \* "px-2 p-4"
    <<"p", "x", "-", "2", " ", "p", "-", "4">>,
    \* "p-4 p-8 my-custom-class"
    <<"p", "-", "4", " ", "p", "-", "8", " ", "m", "y", "-", "c", "u", "s", "t", "o", "m", "-", "c", "l", "a", "s", "s">>
    }

Threads == 1..NumThreads

(***************************************************************************)
(* State.                                                                  *)
(***************************************************************************)
VARIABLES
    file,              \* the content of the stylesheet at cssPath, NoFile when there is none
    input,             \* the class list the callers pass to Merge
    fnToCall,          \* "init" until the first call has set the merger up
    cache,             \* the merger's cache, NilCache before it is made
    ClassMapStr,       \* class list -> generated class name
    GenClassMergeStr,  \* generated class name -> merged class list
    pc,                \* per thread: where it is inside merger
    classList,         \* per thread: the trimmed argument
    merged,            \* per thread: the result of mergeClassList
    returned,          \* the calls that ended: <<argument, result>>
    nCalls,            \* calls started so far
    crashed,           \* a panic has ended the process
    RuntimeClassMap,   \* raw class list -> generated class name
    locks,             \* per mutex: the threads holding it, each with its mode
    frame,             \* per thread: the local variables of the call it is in
    trace              \* the calls that ended, in the order they ended

vars == << file, input, fnToCall, cache, ClassMapStr, GenClassMergeStr, pc, classList,
           merged, returned, nCalls, crashed, RuntimeClassMap, locks, frame, trace >>

\* The variables Merge leaves alone.
runtimeVars == << RuntimeClassMap, locks, frame, trace >>

\* No call in progress.
NoFrame == [op |-> "none"]

\* sync.Mutex and sync.RWMutex: nobody holds them.
Unlocked ==
    [cacheMutex |-> {}, listMutex |-> {}, mapMutex |-> {}, runtimeMapMutex |-> {}]

\* os.ReadFile finds no file.
NoFile == [exists |-> FALSE, content |-> <<>>]

\* The package after its variables are initialized: Merge = createTwMerge(nil, nil).
Package ==
    /\ fnToCall = "init"
    /\ cache = NilCache
    /\ ClassMapStr = <<>>
    /\ GenClassMergeStr = <<>>
    /\ pc = [t \in Threads |-> "idle"]
    /\ classList = [t \in Threads |-> <<>>]
    /\ merged = [t \in Threads |-> <<>>]
    /\ returned = {}
    /\ nCalls = 0
    /\ crashed = FALSE
    /\ RuntimeClassMap = <<>>
    /\ locks = Unlocked
    /\ frame = [t \in Threads |-> NoFrame]
    /\ trace = <<>>

\* The package, and no stylesheet written yet.
Created == file = NoFile /\ Package

Init == Created /\ input \in Inputs

\* init: the cache is made when it is nil.
InitCache == IF fnToCall = "init" /\ cache.isNil THEN Make(MaxCacheSize) ELSE cache

\* The two tables after the merger has recorded classList -> merged.
RecordClassMap(table, list, mergedList) ==
    IF list # mergedList THEN (list :> ClassName(mergedList)) @@ table ELSE table

RecordGenClass(table, list, mergedList) ==
    IF list # mergedList THEN (ClassName(mergedList) :> mergedList) @@ table ELSE table

(***************************************************************************)
(* Merge called by one caller at a time: the whole call is one step.       *)
(***************************************************************************)
\* The merger on a cache miss: merge, store, record, return.
MergeMiss(arg, trimmed, l, result) ==
    /\ returned' = returned \cup {<<arg, result>>}
    /\ crashed' = (result = Panic)
    /\ IF result = Panic
       THEN /\ cache' = l
            /\ UNCHANGED <<ClassMapStr, GenClassMergeStr>>
       ELSE /\ cache' = lruSet(l, trimmed, result)
            /\ ClassMapStr' = RecordClassMap(ClassMapStr, trimmed, result)
            /\ GenClassMergeStr' = RecordGenClass(GenClassMergeStr, trimmed, result)

\* The merger once the cache has answered got.
MergeGot(arg, trimmed, got, st) ==
    IF got.val # <<>>
    THEN /\ cache' = got.l
         /\ returned' = returned \cup {<<arg, got.val>>}
         /\ UNCHANGED <<ClassMapStr, GenClassMergeStr, crashed>>
    ELSE \E order \in ScanOrders(st) : MergeMiss(arg, trimmed, got.l, emitResult(st, order))

MergeTrimmed(arg, trimmed) ==
    IF trimmed = <<>>
    THEN /\ cache' = InitCache
         /\ returned' = returned \cup {<<arg, <<>>>>}
         /\ UNCHANGED <<ClassMapStr, GenClassMergeStr, crashed>>
    ELSE MergeGot(arg, trimmed, lruGet(InitCache, trimmed), scanClassList(trimmed))

MergeCall(arg) ==
    /\ ~crashed
    /\ nCalls < MaxCalls
    /\ nCalls' = nCalls + 1
    /\ fnToCall' = "merger"
    /\ UNCHANGED <<file, input, pc, classList, merged>>
    /\ UNCHANGED runtimeVars
    /\ MergeTrimmed(arg, TrimSpace(arg))

\* Merge(input)
Merge == MergeCall(input)

\* Merge(r) for the result r of an earlier call.
MergeAgain == \E r \in returned : r[2] # Panic /\ MergeCall(r[2])

Next == Merge

Spec == Init /\ [][Next]_vars

NextAgain == Merge \/ MergeAgain

SpecAgain == Init /\ [][NextAgain]_vars

(***************************************************************************)
(* Merge called by concurrent threads: a call is interleaved with the      *)
(* others between its cache lookup, its merge, its cache store and its     *)
(* table update.                                                           *)
(***************************************************************************)
Return(t, result) ==
    /\ returned' = returned \cup {<<input, result>>}
    /\ pc' = [pc EXCEPT ![t] = "idle"]

MergeEnter(t) ==
    /\ ~crashed
    /\ pc[t] = "idle"
    /\ nCalls < MaxCalls
    /\ nCalls' = nCalls + 1
    /\ fnToCall' = "merger"
    /\ cache' = InitCache
    /\ classList' = [classList EXCEPT ![t] = TrimSpace(input)]
    /\ IF TrimSpace(input) = <<>>
       THEN Return(t, <<>>)
       ELSE pc' = [pc EXCEPT ![t] = "get"] /\ UNCHANGED returned
    /\ UNCHANGED <<file, input, ClassMapStr, GenClassMergeStr, merged, crashed>>
    /\ UNCHANGED runtimeVars

Got(t, got) ==
    /\ cache' = got.l
    /\ IF got.val # <<>>
       THEN Return(t, got.val)
       ELSE pc' = [pc EXCEPT ![t] = "merge"] /\ UNCHANGED returned

MergerGet(t) ==
    /\ ~crashed
    /\ pc[t] = "get"
    /\ Got(t, lruGet(cache, classList[t]))
    /\ UNCHANGED <<file, input, fnToCall, ClassMapStr, GenClassMergeStr, classList, merged,
                   nCalls, crashed>>
    /\ UNCHANGED runtimeVars

Merged(t, result) ==
    IF result = Panic
    THEN /\ crashed' = TRUE
         /\ Return(t, Panic)
         /\ UNCHANGED merged
    ELSE /\ merged' = [merged EXCEPT ![t] = result]
         /\ pc' = [pc EXCEPT ![t] = "set"]
         /\ UNCHANGED <<returned, crashed>>

MergeScanned(t, st) == \E order \in ScanOrders(st) : Merged(t, emitResult(st, order))

MergerMerge(t) ==
    /\ ~crashed
    /\ pc[t] = "merge"
    /\ MergeScanned(t, scanClassList(classList[t]))
    /\ UNCHANGED <<file, input, fnToCall, cache, ClassMapStr, GenClassMergeStr, classList, nCalls>>
    /\ UNCHANGED runtimeVars

MergerSet(t) ==
    /\ ~crashed
    /\ pc[t] = "set"
    /\ cache' = lruSet(cache, classList[t], merged[t])
    /\ IF classList[t] # merged[t]
       THEN pc' = [pc EXCEPT ![t] = "record"] /\ UNCHANGED returned
       ELSE Return(t, merged[t])
    /\ UNCHANGED <<file, input, fnToCall, ClassMapStr, GenClassMergeStr, classList, merged,
                   nCalls, crashed>>
    /\ UNCHANGED runtimeVars

MergerRecord(t) ==
    /\ ~crashed
    /\ pc[t] = "record"
    /\ ClassMapStr' = RecordClassMap(ClassMapStr, classList[t], merged[t])
    /\ GenClassMergeStr' = RecordGenClass(GenClassMergeStr, classList[t], merged[t])
    /\ Return(t, merged[t])
    /\ UNCHANGED <<file, input, fnToCall, cache, classList, merged, nCalls, crashed>>
    /\ UNCHANGED runtimeVars

InitConc == Created /\ input \in SharedInputs

NextConc ==
    \E t \in Threads :
        \/ MergeEnter(t)
        \/ MergerGet(t)
        \/ MergerMerge(t)
        \/ MergerSet(t)
        \/ MergerRecord(t)

SpecConc == InitConc /\ [][NextConc]_vars

(***************************************************************************)
(* The cache used on its own by one caller: Make, then Get and Set calls,  *)
(* each one step.                                                          *)
(***************************************************************************)
MaxCacheOps == 3

\* The capacities a cache is made with.
Capacities == (-1)..MaxCacheSize

\* One key more than the largest capacity: "a", "b", "c", ...
CacheKeys == {<<AsciiOrder[Ord("a") + i]>> : i \in 0..MaxCacheSize}

\* The empty string and a non-empty one.
CacheValues == {<<>>, <<"v">>}

\* A finished call on the cache: found tells whether the key's node was in
\* the map, ret is what Get returned.
CacheCall(op, key, val, found, ret) ==
    [op |-> op, key |-> key, val |-> val, found |-> found, ret |-> ret]

MakeCache(maxCapacity) ==
    /\ cache.isNil
    /\ cache' = Make(maxCapacity)
    /\ UNCHANGED <<file, input, fnToCall, ClassMapStr, GenClassMergeStr, pc, classList, merged,
                   returned, nCalls, crashed, RuntimeClassMap, locks, frame, trace>>

CacheGot(key, found, got) ==
    /\ cache' = got.l
    /\ crashed' = got.l.panic
    /\ trace' = Append(trace, CacheCall("get", key, <<>>, found, got.val))

CacheGet(key) ==
    /\ ~cache.isNil /\ ~crashed
    /\ Len(trace) < MaxCacheOps
    /\ CacheGot(key, NodeOf(cache, key) # Nil, lruGet(cache, key))
    /\ UNCHANGED <<file, input, fnToCall, ClassMapStr, GenClassMergeStr, pc, classList, merged,
                   returned, nCalls, RuntimeClassMap, locks, frame>>

CacheStored(key, value, found, l) ==
    /\ cache' = l
    /\ crashed' = l.panic
    /\ trace' = Append(trace, CacheCall("set", key, value, found, <<>>))

CacheSet(key, value) ==
    /\ ~cache.isNil /\ ~crashed
    /\ Len(trace) < MaxCacheOps
    /\ CacheStored(key, value, NodeOf(cache, key) # Nil, lruSet(cache, key, value))
    /\ UNCHANGED <<file, input, fnToCall, ClassMapStr, GenClassMergeStr, pc, classList, merged,
                   returned, nCalls, RuntimeClassMap, locks, frame>>

InitCacheSpec == Created /\ input = <<>>

NextCache ==
    \/ \E maxCapacity \in Capacities : MakeCache(maxCapacity)
    \/ \E key \in CacheKeys : CacheGet(key)
    \/ \E key \in CacheKeys, value \in CacheValues : CacheSet(key, value)

SpecCache == InitCacheSpec /\ [][NextCache]_vars

(***************************************************************************)
(* The cache under concurrent callers.  A call takes each mutex in one     *)
(* step and runs the section the mutex guards in the next; a section that  *)
(* touches the list or the map without holding that structure's mutex,     *)
(* while another caller holds it, is a data race, whose outcome is either  *)
(* the effect of the section or a crash.                                   *)
(***************************************************************************)
Holders(mutex) == {h[1] : h \in locks[mutex]}

CanLock(mutex) == locks[mutex] = {}

CanRLock(mutex) == \A h \in locks[mutex] : h[2] = "r"

Lock(t, mutex) == [locks EXCEPT ![mutex] = @ \cup {<<t, "w">>}]

RLock(t, mutex) == [locks EXCEPT ![mutex] = @ \cup {<<t, "r">>}]

Unlock(t, mutex) == [locks EXCEPT ![mutex] = {h \in @ : h[1] # t}]

CacheFrame(op, at, key, val, n) ==
    [op |-> op, at |-> at, key |-> key, val |-> val, n |-> n, found |-> FALSE]

At(t, op, at) == frame[t].op = op /\ frame[t].at = at

Goto(t, at) == [frame EXCEPT ![t].at = at]

\* Calls begun, ended or not.
CallsBegun == Len(trace) + Cardinality({t \in Threads : frame[t].op # "none"})

\* The outcomes of a section: a nil dereference panics, a data race may
\* crash, otherwise the section's effect.
Outcomes(l, raced) == {l.panic} \cup (IF raced THEN {TRUE} ELSE {})

cacheUnchanged ==
    UNCHANGED <<file, input, fnToCall, ClassMapStr, GenClassMergeStr, pc, classList, merged,
                returned, nCalls, RuntimeClassMap>>

\* Get: l.cacheMutex.RLock()
GetRLock(t, key) ==
    /\ ~cache.isNil /\ ~crashed
    /\ frame[t].op = "none"
    /\ CallsBegun < MaxCacheOps
    /\ CanRLock("cacheMutex")
    /\ locks' = RLock(t, "cacheMutex")
    /\ frame' = [frame EXCEPT ![t] = CacheFrame("get", "lookup", key, <<>>, Nil)]
    /\ UNCHANGED <<cache, crashed, trace>>
    /\ cacheUnchanged

\* Get: n := l.cache[key]; return "" when nil; RUnlock
GetLookup(t) ==
    /\ ~crashed
    /\ At(t, "get", "lookup")
    /\ locks' = Unlock(t, "cacheMutex")
    /\ IF NodeOf(cache, frame[t].key) = Nil
       THEN /\ frame' = [frame EXCEPT ![t] = NoFrame]
            /\ trace' = Append(trace, CacheCall("get", frame[t].key, <<>>, FALSE, <<>>))
       ELSE /\ frame' = [frame EXCEPT ![t].at = "found",
                                      ![t].n = NodeOf(cache, frame[t].key)]
            /\ UNCHANGED trace
    /\ UNCHANGED <<cache, crashed>>
    /\ cacheUnchanged

\* Get: l.listMutex.Lock()
GetListLock(t) ==
    /\ ~crashed
    /\ At(t, "get", "found")
    /\ CanLock("listMutex")
    /\ locks' = Lock(t, "listMutex")
    /\ frame' = Goto(t, "move")
    /\ UNCHANGED <<cache, crashed, trace>>
    /\ cacheUnchanged

\* Get: l.remove(n); l.insertRight(n); Unlock; return n.val
GetMove(t) ==
    /\ ~crashed
    /\ At(t, "get", "move")
    /\ cache' = insertRight(remove(cache, frame[t].n), frame[t].n)
    /\ crashed' = cache'.panic
    /\ locks' = Unlock(t, "listMutex")
    /\ frame' = [frame EXCEPT ![t] = NoFrame]
    /\ trace' = Append(trace, CacheCall("get", frame[t].key, <<>>, TRUE,
                                        cache.nodes[frame[t].n].val))
    /\ cacheUnchanged

\* Set: l.cacheMutex.Lock()
SetLock(t, key, value) ==
    /\ ~cache.isNil /\ ~crashed
    /\ frame[t].op = "none"
    /\ CallsBegun < MaxCacheOps
    /\ CanLock("cacheMutex")
    /\ locks' = Lock(t, "cacheMutex")
    /\ frame' = [frame EXCEPT ![t] = CacheFrame("set", "store", key, value, Nil)]
    /\ UNCHANGED <<cache, crashed, trace>>
    /\ cacheUnchanged

\* The cache after Set's first section: the key's old node removed from the
\* list, a new node made and stored in the map.
stored(l, key, value) ==
    [l EXCEPT !.nodes = Append(@, NewNode(key, value)),
              !.cache = (key :> (Len(l.nodes) + 1)) @@ @]

\* Set: if n := l.cache[key]; n != nil { l.remove(n) }; new node; store; Unlock.
\* remove writes the list and l.capacity with only cacheMutex held.
SetStore(t) ==
    /\ ~crashed
    /\ At(t, "set", "store")
    /\ cache' = IF NodeOf(cache, frame[t].key) # Nil
                THEN stored(remove(cache, NodeOf(cache, frame[t].key)),
                            frame[t].key, frame[t].val)
                ELSE stored(cache, frame[t].key, frame[t].val)
    /\ crashed' \in Outcomes(cache', /\ NodeOf(cache, frame[t].key) # Nil
                                     /\ Holders("listMutex") # {})
    /\ locks' = Unlock(t, "cacheMutex")
    /\ frame' = [frame EXCEPT ![t].at = "stored", ![t].n = Len(cache.nodes) + 1,
                               ![t].found = NodeOf(cache, frame[t].key) # Nil]
    /\ UNCHANGED trace
    /\ cacheUnchanged

\* Set: l.listMutex.Lock(), first time
SetLinkLock(t) ==
    /\ ~crashed
    /\ At(t, "set", "stored")
    /\ CanLock("listMutex")
    /\ locks' = Lock(t, "listMutex")
    /\ frame' = Goto(t, "link")
    /\ UNCHANGED <<cache, crashed, trace>>
    /\ cacheUnchanged

\* Set: l.insertRight(n); Unlock
SetLink(t) ==
    /\ ~crashed
    /\ At(t, "set", "link")
    /\ cache' = insertRight(cache, frame[t].n)
    /\ crashed' = cache'.panic
    /\ locks' = Unlock(t, "listMutex")
    /\ frame' = Goto(t, "linked")
    /\ UNCHANGED trace
    /\ cacheUnchanged

\* Set: l.listMutex.Lock(), second time
SetEvictLock(t) ==
    /\ ~crashed
    /\ At(t, "set", "linked")
    /\ CanLock("listMutex")
    /\ locks' = Lock(t, "listMutex")
    /\ frame' = Goto(t, "evict")
    /\ UNCHANGED <<cache, crashed, trace>>
    /\ cacheUnchanged

\* Set: if l.capacity > l.maxCapacity { delete; remove }; Unlock; return.
\* delete writes the map with only listMutex held.
SetEvict(t) ==
    /\ ~crashed
    /\ At(t, "set", "evict")
    /\ cache' = evict(cache)
    /\ crashed' \in Outcomes(cache', /\ cache.capacity > cache.maxCapacity
                                     /\ Holders("cacheMutex") # {})
    /\ locks' = Unlock(t, "listMutex")
    /\ frame' = [frame EXCEPT ![t] = NoFrame]
    /\ trace' = Append(trace, CacheCall("set", frame[t].key, frame[t].val,
                                        frame[t].found, <<>>))
    /\ cacheUnchanged

NextCacheConc ==
    \/ \E maxCapacity \in Capacities : MakeCache(maxCapacity)
    \/ \E t \in Threads, key \in CacheKeys : GetRLock(t, key)
    \/ \E t \in Threads : GetLookup(t)
    \/ \E t \in Threads : GetListLock(t)
    \/ \E t \in Threads : GetMove(t)
    \/ \E t \in Threads, key \in CacheKeys, value \in CacheValues : SetLock(t, key, value)
    \/ \E t \in Threads : SetStore(t)
    \/ \E t \in Threads : SetLinkLock(t)
    \/ \E t \in Threads : SetLink(t)
    \/ \E t \in Threads : SetEvictLock(t)
    \/ \E t \in Threads : SetEvict(t)

SpecCacheConc == InitCacheSpec /\ [][NextCacheConc]_vars

(***************************************************************************)
(* The runtime table used by one caller at a time: RuntimeGenerate,        *)
(* RegisterClasses, ClearRuntimeMap and Merge, each call one step.         *)
(***************************************************************************)
MaxRuntimeCalls == 3

\* sha1 is modelled by a second checksum, so that the name RuntimeGenerate
\* computes and the name the merger records for the same merged list are
\* the values of two functions, as they are for sha1 and md5.
RECURSIVE Checksum1(_, _)
Checksum1(s, i) ==
    IF i > Len(s) THEN 1 ELSE ((i + 1) * Ord(s[i]) + Checksum1(s, i + 1)) % HashSpace

\* "tw-" + base64.URLEncoding.EncodeToString(sha1.Sum(merged))[:7]
RuntimeClassName(mergedList) == <<"t", "w", "-">> \o Decimal(Checksum1(mergedList, 1))

RuntimeInputs ==
    {
    \* "p-4 p-8"
    <<"p", "-", "4", " ", "p", "-", "8">>,
    \* "p-8"
    <<"p", "-", "8">>,
    \* "p-4 px-2"
    <<"p", "-", "4", " ", "p", "x", "-", "2">>
    }

RegisteredKeys ==
    {
    \* "p-4 p-8"
    <<"p", "-", "4", " ", "p", "-", "8">>,
    \* "p-8"
    <<"p", "-", "8">>
    }

RegisteredNames ==
    {
    \* "tw-custom1"
    <<"t", "w", "-", "c", "u", "s", "t", "o", "m", "1">>,
    \* "tw-custom2"
    <<"t", "w", "-", "c", "u", "s", "t", "o", "m", "2">>
    }

\* The class maps RegisterClasses is called with.
ClassMaps ==
    UNION {[keys -> RegisteredNames] : keys \in (SUBSET RegisteredKeys) \ {{}}}

\* A finished call on the runtime table.
RuntimeCall(op, key, classMap, ret) ==
    [op |-> op, key |-> key, classMap |-> classMap, ret |-> ret]

\* maps.Copy(dst, src)
Copy(dst, src) == src @@ dst

\* RuntimeGenerate returns a name it found in one of the tables.
RuntimeFound(classes, className) ==
    /\ trace' = Append(trace, RuntimeCall("generate", classes, <<>>, className))
    /\ UNCHANGED <<fnToCall, cache, ClassMapStr, GenClassMergeStr, returned, nCalls,
                   crashed, RuntimeClassMap>>

\* RuntimeGenerate after Merge returned mergedList: hash, store, return.
RuntimeStore(classes, mergedList) ==
    IF mergedList = Panic
    THEN UNCHANGED <<RuntimeClassMap, trace>>
    ELSE /\ RuntimeClassMap' = (classes :> RuntimeClassName(mergedList)) @@ RuntimeClassMap
         /\ trace' = Append(trace, RuntimeCall("generate", classes, <<>>,
                                               RuntimeClassName(mergedList)))

RuntimeMiss(classes, trimmed, l, mergedList) ==
    MergeMiss(classes, trimmed, l, mergedList) /\ RuntimeStore(classes, mergedList)

RuntimeGot(classes, trimmed, got, st) ==
    IF got.val # <<>>
    THEN MergeGot(classes, trimmed, got, st) /\ RuntimeStore(classes, got.val)
    ELSE \E order \in ScanOrders(st) :
            RuntimeMiss(classes, trimmed, got.l, emitResult(st, order))

\* merged := Merge(classes) and what follows it.
RuntimeMerge(classes, trimmed) ==
    /\ nCalls < MaxCalls
    /\ nCalls' = nCalls + 1
    /\ fnToCall' = "merger"
    /\ IF trimmed = <<>>
       THEN MergeTrimmed(classes, trimmed) /\ RuntimeStore(classes, <<>>)
       ELSE RuntimeGot(classes, trimmed, lruGet(InitCache, trimmed), scanClassList(trimmed))

RuntimeGenerate(classes) ==
    /\ ~crashed
    /\ Len(trace) < MaxRuntimeCalls
    /\ IF classes \in DOMAIN ClassMapStr
       THEN RuntimeFound(classes, ClassMapStr[classes])
       ELSE IF classes \in DOMAIN RuntimeClassMap
            THEN RuntimeFound(classes, RuntimeClassMap[classes])
            ELSE RuntimeMerge(classes, TrimSpace(classes))
    /\ UNCHANGED <<file, input, pc, classList, merged, locks, frame>>

RegisterClasses(classMap) ==
    /\ ~crashed
    /\ Len(trace) < MaxRuntimeCalls
    /\ RuntimeClassMap' = Copy(RuntimeClassMap, classMap)
    /\ ClassMapStr' = Copy(ClassMapStr, classMap)
    /\ trace' = Append(trace, RuntimeCall("register", <<>>, classMap, <<>>))
    /\ UNCHANGED <<file, input, fnToCall, cache, GenClassMergeStr, pc, classList, merged,
                   returned, nCalls, crashed, locks, frame>>

ClearRuntimeMap ==
    /\ ~crashed
    /\ Len(trace) < MaxRuntimeCalls
    /\ RuntimeClassMap' = <<>>
    /\ ClassMapStr' = <<>>
    /\ trace' = Append(trace, RuntimeCall("clear", <<>>, <<>>, <<>>))
    /\ UNCHANGED <<file, input, fnToCall, cache, GenClassMergeStr, pc, classList, merged,
                   returned, nCalls, crashed, locks, frame>>

\* GetRuntimeMapping returns a copy of the table.
GetRuntimeMapping == RuntimeClassMap

NextRuntime ==
    \/ \E classes \in RuntimeInputs : RuntimeGenerate(classes)
    \/ \E classMap \in ClassMaps : RegisterClasses(classMap)
    \/ ClearRuntimeMap
    \/ \E classes \in RuntimeInputs : MergeCall(classes)

SpecRuntime == InitCacheSpec /\ [][NextRuntime]_vars

(***************************************************************************)
(* The shared tables under concurrent callers of Merge, RuntimeGenerate,   *)
(* RegisterClasses, ClearRuntimeMap and Lint.  A call is a sequence of     *)
(* sections; a caller enters a section by taking the section's mutex, if   *)
(* it has one, and leaves it by doing the section's reads and writes and   *)
(* releasing the mutex.  The merger's work on the cache is one step.       *)
(***************************************************************************)
\* The mutex a section takes, how it takes it, and the tables it touches.
Section(at) ==
    CASE at = "quick"    -> [mutex |-> "none", mode |-> "r",
                             reads |-> {"ClassMapStr"}, writes |-> {}]
      [] at = "lookup"   -> [mutex |-> "runtimeMapMutex", mode |-> "r",
                             reads |-> {"RuntimeClassMap"}, writes |-> {}]
      [] at = "store"    -> [mutex |-> "runtimeMapMutex", mode |-> "w",
                             reads |-> {}, writes |-> {"RuntimeClassMap"}]
      [] at = "record"   -> [mutex |-> "mapMutex", mode |-> "w",
                             reads |-> {}, writes |-> {"ClassMapStr", "GenClassMergeStr"}]
      [] at = "register" -> [mutex |-> "runtimeMapMutex", mode |-> "w",
                             reads |-> {}, writes |-> {"RuntimeClassMap", "ClassMapStr"}]
      [] at = "clear"    -> [mutex |-> "runtimeMapMutex", mode |-> "w",
                             reads |-> {}, writes |-> {"RuntimeClassMap", "ClassMapStr"}]
      [] at = "lint"     -> [mutex |-> "mapMutex", mode |-> "r",
                             reads |-> {"ClassMapStr", "GenClassMergeStr"}, writes |-> {}]

FirstSection(op) ==
    CASE op = "RuntimeGenerate" -> "quick"
      [] op = "Merge" -> "merge"
      [] op = "RegisterClasses" -> "register"
      [] op = "ClearRuntimeMap" -> "clear"
      [] op = "Lint" -> "lint"

\* Caller t is inside a section.
Accessing(t) == frame[t].op # "none" /\ frame[t].inside

\* The sections at and other touch a common table, one of them writing it.
Conflict(at, other) ==
    \/ Section(at).writes \cap (Section(other).reads \cup Section(other).writes) # {}
    \/ Section(other).writes \cap Section(at).reads # {}

\* Another caller is inside a section that conflicts with t's.
Raced(t) ==
    \E u \in Threads \ {t} : Accessing(u) /\ Conflict(frame[t].at, frame[u].at)

\* The merged values that more than one original class list maps to.
LintReports ==
    {GenClassMergeStr[g] : g \in
        {g \in DOMAIN GenClassMergeStr :
            Cardinality({o \in DOMAIN ClassMapStr : ClassMapStr[o] = g}) > 1}}

\* The call of t ends.
Finish(t, ret) ==
    /\ frame' = [frame EXCEPT ![t] = NoFrame]
    /\ trace' = Append(trace, RuntimeCall(frame[t].op, frame[t].classes,
                                          frame[t].classMap, ret))

Begin(t, op, classes, classMap) ==
    /\ ~crashed
    /\ frame[t].op = "none"
    /\ CallsBegun < MaxRuntimeCalls
    /\ frame' = [frame EXCEPT ![t] = [op |-> op, at |-> FirstSection(op),
                                      inside |-> FALSE, classes |-> classes,
                                      classMap |-> classMap, merged |-> <<>>]]
    /\ UNCHANGED <<file, input, fnToCall, cache, ClassMapStr, GenClassMergeStr, pc, classList,
                   merged, returned, nCalls, crashed, RuntimeClassMap, locks, trace>>

\* Lock, RLock, or nothing for the section that has no mutex.
Enter(t) ==
    /\ ~crashed
    /\ frame[t].op # "none" /\ frame[t].at # "merge" /\ ~frame[t].inside
    /\ IF Section(frame[t].at).mutex = "none"
       THEN UNCHANGED locks
       ELSE IF Section(frame[t].at).mode = "w"
            THEN /\ CanLock(Section(frame[t].at).mutex)
                 /\ locks' = Lock(t, Section(frame[t].at).mutex)
            ELSE /\ CanRLock(Section(frame[t].at).mutex)
                 /\ locks' = RLock(t, Section(frame[t].at).mutex)
    /\ frame' = [frame EXCEPT ![t].inside = TRUE]
    /\ UNCHANGED <<file, input, fnToCall, cache, ClassMapStr, GenClassMergeStr, pc, classList,
                   merged, returned, nCalls, crashed, RuntimeClassMap, trace>>

\* Leaving a section for the section next.
Continue(t, next) ==
    /\ frame' = [frame EXCEPT ![t].inside = FALSE, ![t].at = next]
    /\ UNCHANGED trace

\* What the section of t reads and writes, and where the call goes next.
SectionEffect(t, at, classes) ==
    CASE at = "quick" ->
            /\ IF classes \in DOMAIN ClassMapStr
               THEN Finish(t, ClassMapStr[classes])
               ELSE Continue(t, "lookup")
            /\ UNCHANGED <<ClassMapStr, GenClassMergeStr, RuntimeClassMap>>
      [] at = "lookup" ->
            /\ IF classes \in DOMAIN RuntimeClassMap
               THEN Finish(t, RuntimeClassMap[classes])
               ELSE Continue(t, "merge")
            /\ UNCHANGED <<ClassMapStr, GenClassMergeStr, RuntimeClassMap>>
      [] at = "store" ->
            /\ RuntimeClassMap' =
                  (classes :> RuntimeClassName(frame[t].merged)) @@ RuntimeClassMap
            /\ Finish(t, RuntimeClassName(frame[t].merged))
            /\ UNCHANGED <<ClassMapStr, GenClassMergeStr>>
      [] at = "record" ->
            /\ ClassMapStr' =
                  RecordClassMap(ClassMapStr, TrimSpace(classes), frame[t].merged)
            /\ GenClassMergeStr' =
                  RecordGenClass(GenClassMergeStr, TrimSpace(classes), frame[t].merged)
            /\ IF frame[t].op = "Merge"
               THEN Finish(t, frame[t].merged)
               ELSE Continue(t, "store")
            /\ UNCHANGED RuntimeClassMap
      [] at = "register" ->
            /\ RuntimeClassMap' = Copy(RuntimeClassMap, frame[t].classMap)
            /\ ClassMapStr' = Copy(ClassMapStr, frame[t].classMap)
            /\ Finish(t, <<>>)
            /\ UNCHANGED GenClassMergeStr
      [] at = "clear" ->
            /\ RuntimeClassMap' = <<>>
            /\ ClassMapStr' = <<>>
            /\ Finish(t, <<>>)
            /\ UNCHANGED GenClassMergeStr
      [] at = "lint" ->
            /\ Finish(t, LintReports)
            /\ UNCHANGED <<ClassMapStr, GenClassMergeStr, RuntimeClassMap>>

\* The section's effect, then Unlock or RUnlock.  A section that ran while
\* another caller was inside a conflicting section was a data race, which
\* may also crash the program.
Leave(t) ==
    /\ ~crashed
    /\ Accessing(t)
    /\ SectionEffect(t, frame[t].at, frame[t].classes)
    /\ crashed' \in {FALSE} \cup (IF Raced(t) THEN {TRUE} ELSE {})
    /\ locks' = IF Section(frame[t].at).mutex = "none" THEN locks
                ELSE Unlock(t, Section(frame[t].at).mutex)
    /\ UNCHANGED <<file, input, fnToCall, cache, pc, classList, merged, returned, nCalls>>

\* The merger has its result: record it when it differs from the class
\* list, else go on to what follows Merge in the caller.
MergerDone(t, trimmed, l, result, fresh) ==
    /\ cache' = IF fresh /\ result # Panic THEN lruSet(l, trimmed, result) ELSE l
    /\ crashed' = (result = Panic)
    /\ IF result = Panic
       THEN UNCHANGED <<frame, trace>>
       ELSE IF fresh /\ trimmed # result
            THEN /\ frame' = [frame EXCEPT ![t].merged = result, ![t].at = "record"]
                 /\ UNCHANGED trace
            ELSE IF frame[t].op = "Merge"
                 THEN Finish(t, result)
                 ELSE /\ frame' = [frame EXCEPT ![t].merged = result, ![t].at = "store"]
                      /\ UNCHANGED trace

MergerCached(t, trimmed, got, st) ==
    IF got.val # <<>>
    THEN MergerDone(t, trimmed, got.l, got.val, FALSE)
    ELSE \E order \in ScanOrders(st) :
            MergerDone(t, trimmed, got.l, emitResult(st, order), TRUE)

\* Merge up to the merger's cache.Set: trim, cache.Get, mergeClassList.
MergeStep(t) ==
    /\ ~crashed
    /\ frame[t].op # "none" /\ frame[t].at = "merge"
    /\ fnToCall' = "merger"
    /\ IF TrimSpace(frame[t].classes) = <<>>
       THEN MergerDone(t, <<>>, InitCache, <<>>, FALSE)
       ELSE MergerCached(t, TrimSpace(frame[t].classes),
                         lruGet(InitCache, TrimSpace(frame[t].classes)),
                         scanClassList(TrimSpace(frame[t].classes)))
    /\ UNCHANGED <<file, input, ClassMapStr, GenClassMergeStr, pc, classList, merged, returned,
                   nCalls, RuntimeClassMap, locks>>

NextLocks ==
    \/ \E t \in Threads, classes \in RuntimeInputs :
          Begin(t, "RuntimeGenerate", classes, <<>>)
    \/ \E t \in Threads, classes \in RuntimeInputs : Begin(t, "Merge", classes, <<>>)
    \/ \E t \in Threads, classMap \in ClassMaps :
          Begin(t, "RegisterClasses", <<>>, classMap)
    \/ \E t \in Threads : Begin(t, "ClearRuntimeMap", <<>>, <<>>)
    \/ \E t \in Threads : Begin(t, "Lint", <<>>, <<>>)
    \/ \E t \in Threads : Enter(t)
    \/ \E t \in Threads : Leave(t)
    \/ \E t \in Threads : MergeStep(t)

SpecLocks == InitCacheSpec /\ [][NextLocks]_vars

(***************************************************************************)
(* Merge on class lists of arbitrary-property tokens.                      *)
(***************************************************************************)
ArbitraryTokens ==
    {
    \* "[a:1]"
    <<"[", "a", ":", "1", "]">>,
    \* "[a:2]"
    <<"[", "a", ":", "2", "]">>,
    \* "[ax:1]"
    <<"[", "a", "x", ":", "1", "]">>,
    \* "x:[a:1]"
    <<"x", ":", "[", "a", ":", "1", "]">>,
    \* "![a:1]"
    <<"!", "[", "a", ":", "1", "]">>,
    \* "p-4"
    <<"p", "-", "4">>
    }

ArbitraryInputs == {Join(toks, <<" ">>) : toks \in TokenLists(ArbitraryTokens)}

InitArbitrary == Created /\ input \in ArbitraryInputs

SpecArbitrary == InitArbitrary /\ [][Next]_vars

(***************************************************************************)
(* Splicing generated CSS between the markers of a stylesheet.  A result   *)
(* is the content returned and whether an error was returned; the nil      *)
(* content is the empty one.                                               *)
(***************************************************************************)
MaxPieces == 4

twergeBeginMarker == <<"/", "*", " ", "t", "w", "e", "r", "g", "e", ":", "b", "e", "g", "i", "n", " ", "*", "/">>

twergeEndMarker == <<"/", "*", " ", "t", "w", "e", "r", "g", "e", ":", "e", "n", "d", " ", "*", "/">>

\* bytes.Index(s, sep): the 0-based offset of the first sep in s, or -1.
Index(s, sep) ==
    LET at == {i \in 0..(Len(s) - Len(sep)) : Slice(s, i, i + Len(sep)) = sep}
    IN  IF at = {} THEN -1 ELSE CHOOSE i \in at : \A j \in at : i <= j

\* The loop that looks for the end of the line: the offset of the first
\* '\n' or '\r' at or after i, or len(content).
RECURSIVE LineEnd(_, _)
LineEnd(content, i) ==
    IF i < Len(content) /\ content[i + 1] # "\n" /\ content[i + 1] # "\r"
    THEN LineEnd(content, i + 1)
    ELSE i

\* A splice that, finding no end marker, appends the replacement.
replaceFromAppending(content, replacement, beginLineEnd) ==
    IF Index(Slice(content, beginLineEnd, Len(content)), twergeEndMarker) = -1
    THEN [content |-> (content \o replacement) \o twergeEndMarker, err |-> FALSE]
    ELSE [content |->
              ((Slice(content, 0, beginLineEnd) \o replacement) \o <<"\n">>)
              \o Slice(content,
                       Index(Slice(content, beginLineEnd, Len(content)), twergeEndMarker)
                           + beginLineEnd,
                       Len(content)),
          err |-> FALSE]

\* The splice once the end of the begin-marker line is known.
replaceFrom(content, replacement, beginLineEnd) ==
    IF Index(Slice(content, beginLineEnd, Len(content)), twergeEndMarker) = -1
    THEN [content |-> <<>>, err |-> TRUE]
    ELSE [content |->
              ((Slice(content, 0, beginLineEnd) \o replacement) \o <<"\n">>)
              \o Slice(content,
                       Index(Slice(content, beginLineEnd, Len(content)), twergeEndMarker)
                           + beginLineEnd,
                       Len(content)),
          err |-> FALSE]

\* The offset after the line of the begin marker at beginIdx.
beginLineEndOf(content, beginIdx) ==
    IF LineEnd(content, beginIdx + Len(twergeBeginMarker)) < Len(content)
    THEN LineEnd(content, beginIdx + Len(twergeBeginMarker)) + 1
    ELSE LineEnd(content, beginIdx + Len(twergeBeginMarker))

replaceBetweenMarkers(content, replacement) ==
    IF Index(content, twergeBeginMarker) = -1
    THEN [content |-> ((((content \o <<"\n", "\n">>) \o twergeBeginMarker) \o <<"\n">>)
                       \o replacement \o <<"\n">>) \o twergeEndMarker,
          err |-> FALSE]
    ELSE replaceFrom(content, replacement,
                     beginLineEndOf(content, Index(content, twergeBeginMarker)))

\* What stylesheets are made of.
Pieces == {twergeBeginMarker, twergeEndMarker, <<"\n">>, <<"\r">>, <<"o", "l", "d">>}

RECURSIVE Concat(_)
Concat(pieces) == IF pieces = <<>> THEN <<>> ELSE pieces[1] \o Concat(Tail(pieces))

Contents == {Concat(pieces) : pieces \in UNION {[1..n -> Pieces] : n \in 0..MaxPieces}}

Replacements == {<<>>, <<"n", "e", "w">>}

\* replaceBetweenMarkers(content, replacement) for the input drawn.
Replace ==
    /\ nCalls < MaxCalls
    /\ nCalls' = nCalls + 1
    /\ returned' = returned \cup {<<input, replaceBetweenMarkers(input[1], input[2])>>}
    /\ UNCHANGED <<file, input, fnToCall, cache, ClassMapStr, GenClassMergeStr, pc, classList,
                   merged, crashed, RuntimeClassMap, locks, frame, trace>>

InitMarkers == Created /\ input \in Contents \X Replacements

SpecMarkers == InitMarkers /\ [][Replace]_vars

(***************************************************************************)
(* The first calls of Merge by concurrent threads: the returned closure    *)
(* reads fnToCall, and init tests and assigns config and cache and then    *)
(* assigns fnToCall, all without a lock.  A thread is interleaved with     *)
(* the others between these reads and writes.                              *)
(***************************************************************************)
\* return fnToCall(classes): the closure reads fnToCall.
CallFn(t) ==
    /\ ~crashed
    /\ pc[t] = "idle"
    /\ nCalls < MaxCalls
    /\ nCalls' = nCalls + 1
    /\ classList' = [classList EXCEPT ![t] = TrimSpace(input)]
    /\ pc' = [pc EXCEPT ![t] = IF fnToCall = "init" THEN "init" ELSE "merger"]
    /\ UNCHANGED <<file, input, fnToCall, cache, ClassMapStr, GenClassMergeStr, merged,
                   returned, crashed>>
    /\ UNCHANGED runtimeVars

\* init: if cache == nil
InitTestCache(t) ==
    /\ ~crashed
    /\ pc[t] = "init"
    /\ pc' = [pc EXCEPT ![t] = IF cache.isNil THEN "newCache" ELSE "setFn"]
    /\ UNCHANGED <<file, input, fnToCall, cache, ClassMapStr, GenClassMergeStr, classList,
                   merged, returned, nCalls, crashed>>
    /\ UNCHANGED runtimeVars

\* init: cache = newCache(config.MaxCacheSize)
InitNewCache(t) ==
    /\ ~crashed
    /\ pc[t] = "newCache"
    /\ cache' = Make(MaxCacheSize)
    /\ pc' = [pc EXCEPT ![t] = "setFn"]
    /\ UNCHANGED <<file, input, fnToCall, ClassMapStr, GenClassMergeStr, classList, merged,
                   returned, nCalls, crashed>>
    /\ UNCHANGED runtimeVars

\* init: fnToCall = merger; return fnToCall(classes)
InitSetFn(t) ==
    /\ ~crashed
    /\ pc[t] = "setFn"
    /\ fnToCall' = "merger"
    /\ pc' = [pc EXCEPT ![t] = "merger"]
    /\ UNCHANGED <<file, input, cache, ClassMapStr, GenClassMergeStr, classList, merged,
                   returned, nCalls, crashed>>
    /\ UNCHANGED runtimeVars

\* merger: the trimmed class list is tested for emptiness.
MergerTrimmed(t) ==
    /\ ~crashed
    /\ pc[t] = "merger"
    /\ IF classList[t] = <<>>
       THEN Return(t, <<>>)
       ELSE pc' = [pc EXCEPT ![t] = "get"] /\ UNCHANGED returned
    /\ UNCHANGED <<file, input, fnToCall, cache, ClassMapStr, GenClassMergeStr, classList,
                   merged, nCalls, crashed>>
    /\ UNCHANGED runtimeVars

NextInit ==
    \E t \in Threads :
        \/ CallFn(t)
        \/ InitTestCache(t)
        \/ InitNewCache(t)
        \/ InitSetFn(t)
        \/ MergerTrimmed(t)
        \/ MergerGet(t)
        \/ MergerMerge(t)
        \/ MergerSet(t)
        \/ MergerRecord(t)

SpecInit == InitConc /\ [][NextInit]_vars

(***************************************************************************)
(* Merge, RuntimeGenerate, RegisterClasses, ClearRuntimeMap,               *)
(* GetRuntimeClassHTML and the ticker goroutine of WatchAndExportCSS as    *)
(* concurrent callers that block on the mutexes.  A call is the sequence   *)
(* of its lock operations and of the reads and writes between them.  A     *)
(* sync.RWMutex blocks RLock while a writer holds the mutex or has         *)
(* announced itself and waits for the readers to leave.  The cache's own   *)
(* mutexes are taken and released inside the merger's step: no lock is     *)
(* requested while one of them is held.                                    *)
(***************************************************************************)
WatchInputs ==
    {
    <<"p", "-", "4", " ", "p", "-", "8">>,
    <<"p", "-", "8">>
    }

WatchMaps == {(<<"p", "-", "4", " ", "p", "-", "8">> :> <<"t", "w", "-", "c", "u", "s", "t", "o", "m", "1">>)}

\* The class lists the merger is called with: the callers' inputs and the
\* keys of the runtime mapping.
WatchLists == {TrimSpace(c) : c \in WatchInputs \cup UNION {DOMAIN m : m \in WatchMaps}}

\* What mergeClassList returns for each class list: one result for each
\* iteration order of the candidates.
mergedLists ==
    [c \in WatchLists |->
        {emitResult(scanClassList(c), order) : order \in ScanOrders(scanClassList(c))}]

\* The lock operations, reads and writes of a call, in program order.
Program(op) ==
    CASE op = "RuntimeGenerate" ->
            <<"Quick", "RLock", "Lookup", "Merge", "Lock", "Granted", "Store">>
      [] op = "Merge" -> <<"Merge">>
      [] op = "RegisterClasses" -> <<"Lock", "Granted", "Register">>
      [] op = "ClearRuntimeMap" -> <<"Lock", "Granted", "Clear">>
      [] op = "GetRuntimeClassHTML" -> <<"RLock", "Keys", "Each", "RUnlock">>
      [] op = "ExportCSSWithMap" ->
            <<"Save", "Lock", "Granted", "Swap", "RLock", "Keys", "Each", "RUnlock",
              "Lock", "Granted", "Restore", "WriteCSSToFile">>
      [] op = "Tick" ->
            <<"RLock", "RLock", "Keys", "Each", "RUnlock", "RUnlock", "Export">>

\* The mutex an instruction works on.
MutexOf(instr) == IF instr \in {"MapLock", "MapGranted", "Record"}
                  THEN "mapMutex" ELSE "runtimeMapMutex"

\* The holds of t on mutex, as readers or as writer.
Holds(t, mutex) == {h \in locks[mutex] : h[1] = t /\ h[2] \in {"r", "w"}}

\* RLock returns: no writer holds the mutex and none is waiting for it.
ReadersAdmitted(mutex) == \A h \in locks[mutex] : h[2] = "r"

\* Lock has the writers' mutex: no other writer holds or waits.
WritersAdmitted(mutex) == \A h \in locks[mutex] : h[2] = "r"

\* Lock returns: the readers have left.
ReadersLeft(t, mutex) == \A h \in locks[mutex] : h[1] = t /\ h[2] = "pending"

RECURSIVE SortedKeys(_)
SortedKeys(keys) ==
    IF keys = {} THEN <<>>
    ELSE SortInsert(CHOOSE k \in keys : TRUE,
                    SortedKeys(keys \ {CHOOSE k \in keys : TRUE}))

WatchBegin(t, op, classes, classMap) ==
    /\ frame[t].op = "none"
    /\ nCalls < MaxCalls
    /\ nCalls' = nCalls + 1
    /\ frame' = [frame EXCEPT ![t] = [op |-> op, code |-> Program(op),
                                      classes |-> classes, classMap |-> classMap,
                                      merged |-> <<>>, keys |-> <<>>,
                                      originalMap |-> <<>>, builder |-> <<>>,
                                      mergeClassList |-> mergedLists]]
    /\ UNCHANGED <<file, input, fnToCall, cache, ClassMapStr, GenClassMergeStr, pc, classList,
                   merged, returned, crashed, RuntimeClassMap, locks, trace>>

\* The call of t goes on with code, or has returned when none is left.
Proceed(t, code, classes, mergedList, keys) ==
    frame' = [frame EXCEPT ![t] =
                 IF code = <<>> THEN NoFrame
                 ELSE [frame[t] EXCEPT !.code = code, !.classes = classes,
                                       !.merged = mergedList, !.keys = keys]]

Go(t) == Proceed(t, Tail(frame[t].code), frame[t].classes, frame[t].merged, frame[t].keys)

\* The merger has its result; a fresh result that differs from the class
\* list is recorded under mapMutex before the caller goes on.
WatchMerged(t, trimmed, l, result, fresh) ==
    /\ cache' = IF fresh THEN lruSet(l, trimmed, result) ELSE l
    /\ Proceed(t, IF fresh /\ trimmed # result
                  THEN <<"MapLock", "MapGranted", "Record">> \o Tail(frame[t].code)
                  ELSE Tail(frame[t].code),
               frame[t].classes, result, frame[t].keys)

WatchCached(t, trimmed, got) ==
    IF got.val # <<>>
    THEN WatchMerged(t, trimmed, got.l, got.val, FALSE)
    ELSE \E result \in frame[t].mergeClassList[trimmed] :
            WatchMerged(t, trimmed, got.l, result, TRUE)

\* builder.WriteString of one rule in GetRuntimeClassHTML.
RuleHTML(generated, mergedList) ==
    <<".">> \o generated \o <<" ", "{", " ", "@", "a", "p", "p", "l", "y", " ">> \o mergedList \o <<";", " ", "}", "\n">>

\* fmt.Appendf(nil, "%s\n%s\n%s\n", TwergeBeginMarker, cssContent, TwergeEndMarker)
NewFileContent(cssContent) ==
    <<"<", "!", "-", "-", " ", "t", "w", "e", "r", "g", "e", ":", "b", "e", "g", "i", "n", " ", "-", "-", ">">> \o <<"\n">> \o cssContent \o <<"\n">>
        \o <<"<", "!", "-", "-", " ", "t", "w", "e", "r", "g", "e", ":", "e", "n", "d", " ", "-", "-", ">">> \o <<"\n">>

\* What the instruction does to the tables and to the call.
Execute(t, instr, classes) ==
    CASE instr = "Quick" ->
            /\ IF classes \in DOMAIN ClassMapStr
               THEN Proceed(t, <<>>, classes, <<>>, <<>>)
               ELSE Go(t)
            /\ UNCHANGED <<fnToCall, cache, ClassMapStr, GenClassMergeStr, RuntimeClassMap,
                           locks>>
      [] instr = "RLock" ->
            /\ ReadersAdmitted("runtimeMapMutex")
            /\ locks' = [locks EXCEPT !["runtimeMapMutex"] =
                            @ \cup {<<t, "r", Cardinality(Holds(t, "runtimeMapMutex")) + 1>>}]
            /\ Go(t)
            /\ UNCHANGED <<fnToCall, cache, ClassMapStr, GenClassMergeStr, RuntimeClassMap>>
      [] instr = "RUnlock" ->
            /\ locks' = [locks EXCEPT !["runtimeMapMutex"] =
                            @ \ {<<t, "r", Cardinality(Holds(t, "runtimeMapMutex"))>>}]
            /\ Go(t)
            /\ UNCHANGED <<fnToCall, cache, ClassMapStr, GenClassMergeStr, RuntimeClassMap>>
      [] instr = "Lookup" ->
            /\ locks' = [locks EXCEPT !["runtimeMapMutex"] = @ \ {<<t, "r", 1>>}]
            /\ IF classes \in DOMAIN RuntimeClassMap
               THEN Proceed(t, <<>>, classes, <<>>, <<>>)
               ELSE Go(t)
            /\ UNCHANGED <<fnToCall, cache, ClassMapStr, GenClassMergeStr, RuntimeClassMap>>
      [] instr \in {"Lock", "MapLock"} ->
            /\ WritersAdmitted(MutexOf(instr))
            /\ locks' = [locks EXCEPT ![MutexOf(instr)] = @ \cup {<<t, "pending", 0>>}]
            /\ Go(t)
            /\ UNCHANGED <<fnToCall, cache, ClassMapStr, GenClassMergeStr, RuntimeClassMap>>
      [] instr \in {"Granted", "MapGranted"} ->
            /\ ReadersLeft(t, MutexOf(instr))
            /\ locks' = [locks EXCEPT ![MutexOf(instr)] = {<<t, "w", 1>>}]
            /\ Go(t)
            /\ UNCHANGED <<fnToCall, cache, ClassMapStr, GenClassMergeStr, RuntimeClassMap>>
      [] instr = "Merge" ->
            /\ fnToCall' = "merger"
            /\ IF TrimSpace(classes) = <<>>
               THEN WatchMerged(t, <<>>, InitCache, <<>>, FALSE)
               ELSE WatchCached(t, TrimSpace(classes), lruGet(InitCache, TrimSpace(classes)))
            /\ UNCHANGED <<ClassMapStr, GenClassMergeStr, RuntimeClassMap, locks>>
      [] instr = "Record" ->
            /\ ClassMapStr' = RecordClassMap(ClassMapStr, TrimSpace(classes), frame[t].merged)
            /\ GenClassMergeStr' =
                  RecordGenClass(GenClassMergeStr, TrimSpace(classes), frame[t].merged)
            /\ locks' = [locks EXCEPT !["mapMutex"] = {}]
            /\ Go(t)
            /\ UNCHANGED <<fnToCall, cache, RuntimeClassMap>>
      [] instr = "Store" ->
            /\ RuntimeClassMap' =
                  (classes :> RuntimeClassName(frame[t].merged)) @@ RuntimeClassMap
            /\ locks' = [locks EXCEPT !["runtimeMapMutex"] = {}]
            /\ Go(t)
            /\ UNCHANGED <<fnToCall, cache, ClassMapStr, GenClassMergeStr>>
      [] instr = "Register" ->
            /\ RuntimeClassMap' = Copy(RuntimeClassMap, frame[t].classMap)
            /\ ClassMapStr' = Copy(ClassMapStr, frame[t].classMap)
            /\ locks' = [locks EXCEPT !["runtimeMapMutex"] = {}]
            /\ Go(t)
            /\ UNCHANGED <<fnToCall, cache, GenClassMergeStr>>
      [] instr = "Clear" ->
            /\ RuntimeClassMap' = <<>>
            /\ ClassMapStr' = <<>>
            /\ locks' = [locks EXCEPT !["runtimeMapMutex"] = {}]
            /\ Go(t)
            /\ UNCHANGED <<fnToCall, cache, GenClassMergeStr>>
      [] instr = "Keys" ->
            /\ Proceed(t, Tail(frame[t].code), classes, frame[t].merged,
                       SortedKeys(DOMAIN RuntimeClassMap))
            /\ UNCHANGED <<fnToCall, cache, ClassMapStr, GenClassMergeStr, RuntimeClassMap,
                           locks>>
      [] instr = "Each" ->
            /\ IF frame[t].keys = <<>>
               THEN Go(t)
               ELSE Proceed(t, <<"Merge", "Rule">> \o frame[t].code, Head(frame[t].keys),
                            frame[t].merged, Tail(frame[t].keys))
            /\ UNCHANGED <<fnToCall, cache, ClassMapStr, GenClassMergeStr, RuntimeClassMap,
                           locks>>
      [] instr = "Rule" ->
            /\ frame' = [frame EXCEPT ![t].code = Tail(@),
                                      ![t].builder =
                                          @ \o RuleHTML(RuntimeClassMap[classes],
                                                        frame[t].merged)]
            /\ UNCHANGED <<fnToCall, cache, ClassMapStr, GenClassMergeStr, RuntimeClassMap,
                           locks>>
      [] instr = "Save" ->
            /\ Go(t)
            /\ UNCHANGED <<fnToCall, cache, ClassMapStr, GenClassMergeStr, RuntimeClassMap,
                           locks>>
      [] instr = "Swap" ->
            /\ frame' = [frame EXCEPT ![t].code = Tail(@),
                                      ![t].originalMap = RuntimeClassMap]
            /\ RuntimeClassMap' = frame[t].classMap
            /\ locks' = [locks EXCEPT !["runtimeMapMutex"] = {}]
            /\ UNCHANGED <<fnToCall, cache, ClassMapStr, GenClassMergeStr>>
      [] instr = "Restore" ->
            /\ RuntimeClassMap' = frame[t].originalMap
            /\ locks' = [locks EXCEPT !["runtimeMapMutex"] = {}]
            /\ Go(t)
            /\ UNCHANGED <<fnToCall, cache, ClassMapStr, GenClassMergeStr>>
      [] instr = "Export" ->
            /\ Go(t)
            /\ UNCHANGED <<fnToCall, cache, ClassMapStr, GenClassMergeStr, RuntimeClassMap,
                           locks>>

\* The call of t takes its next step, if the step does not block.
WatchStep(t) ==
    /\ frame[t].op # "none"
    /\ Head(frame[t].code) # "WriteCSSToFile"
    /\ Execute(t, Head(frame[t].code), frame[t].classes)
    /\ UNCHANGED <<file, input, pc, classList, merged, returned, nCalls, crashed, trace>>

NextWatch ==
    \/ \E t \in Threads, classes \in WatchInputs :
          WatchBegin(t, "RuntimeGenerate", classes, <<>>)
    \/ \E t \in Threads, classes \in WatchInputs : WatchBegin(t, "Merge", classes, <<>>)
    \/ \E t \in Threads, classMap \in WatchMaps :
          WatchBegin(t, "RegisterClasses", <<>>, classMap)
    \/ \E t \in Threads : WatchBegin(t, "ClearRuntimeMap", <<>>, <<>>)
    \/ \E t \in Threads : WatchBegin(t, "GetRuntimeClassHTML", <<>>, <<>>)
    \/ \E t \in Threads : WatchBegin(t, "Tick", <<>>, <<>>)
    \/ \E t \in Threads : WatchStep(t)

SpecWatch == InitCacheSpec /\ [][NextWatch]_vars

\* The scheduler runs every goroutine that is not blocked.
SpecWatchFair == SpecWatch /\ \A t \in Threads : WF_vars(WatchStep(t))

(***************************************************************************)
(* ExportCSSWithMap beside concurrent RuntimeGenerate and RegisterClasses  *)
(* calls.  A Go map is a reference: between the export's two assignments   *)
(* RuntimeClassMap is the caller's map, and originalMap is the map that    *)
(* RuntimeClassMap was when the export replaced it.  The export is called  *)
(* with the path of a file that does not exist, one export at a time.      *)
(***************************************************************************)
ExportBegin(t, classMap) ==
    /\ ~file.exists
    /\ \A u \in Threads : frame[u].op # "ExportCSSWithMap"
    /\ WatchBegin(t, "ExportCSSWithMap", <<>>, classMap)

\* return WriteCSSToFile(filePath, cssContent) when os.ReadFile finds no file.
ExportWrite(t) ==
    /\ frame[t].op # "none"
    /\ Head(frame[t].code) = "WriteCSSToFile"
    /\ file' = [exists |-> TRUE, content |-> NewFileContent(frame[t].builder)]
    /\ frame' = [frame EXCEPT ![t] = NoFrame]
    /\ UNCHANGED <<input, fnToCall, cache, ClassMapStr, GenClassMergeStr, pc, classList,
                   merged, returned, nCalls, crashed, RuntimeClassMap, locks, trace>>

NextExport ==
    \/ \E t \in Threads, classMap \in WatchMaps : ExportBegin(t, classMap)
    \/ \E t \in Threads, classes \in WatchInputs :
          WatchBegin(t, "RuntimeGenerate", classes, <<>>)
    \/ \E t \in Threads, classMap \in WatchMaps :
          WatchBegin(t, "RegisterClasses", <<>>, classMap)
    \/ \E t \in Threads : WatchStep(t)
    \/ \E t \in Threads : ExportWrite(t)

SpecExport == InitCacheSpec /\ [][NextExport]_vars

(***************************************************************************)
(* GenerateTailwind(cssPath) on the stylesheet at cssPath, after Merge and *)
(* RegisterClasses calls have filled the tables.  One caller at a time:    *)
(* the whole call is one step.                                             *)
(***************************************************************************)
MaxFilePieces == 2

\* The stylesheets at cssPath before the first call.
Files ==
    {NoFile} \cup
    {[exists |-> TRUE, content |-> Concat(pieces)] :
        pieces \in UNION {[1..n -> Pieces] : n \in 0..MaxFilePieces}}

\* The content GenerateTailwind starts from when the file does not exist.
defaultContent ==
    <<"@", "t", "a", "i", "l", "w", "i", "n", "d", " ", "b", "a", "s", "e", ";">> \o <<"\n">> \o <<"@", "t", "a", "i", "l", "w", "i", "n", "d", " ", "c", "o", "m", "p", "o", "n", "e", "n", "t", "s", ";">> \o <<"\n">>
        \o <<"@", "t", "a", "i", "l", "w", "i", "n", "d", " ", "u", "t", "i", "l", "i", "t", "i", "e", "s", ";">> \o <<"\n", "\n">>
        \o <<"/", "*", " ", "t", "w", "e", "r", "g", "e", ":", "s", "t", "a", "r", "t", " ", "*", "/">> \o <<"\n">> \o <<"/", "*", " ", "t", "w", "e", "r", "g", "e", ":", "e", "n", "d", " ", "*", "/">> \o <<"\n">>

\* The rule GenerateTailwind writes for a class name.
ApplyRule(generated, mergedList) ==
    <<".">> \o generated \o <<" ", "{", " ", "\n", "\t">> \o <<"@", "a", "p", "p", "l", "y", " ">> \o mergedList
        \o <<";", " ", "\n", "}", "\n">>

\* The orders in which range visits the keys of a map.
RangeOrders(keys) ==
    {order \in [1..Cardinality(keys) -> keys] :
        \A i, j \in 1..Cardinality(keys) : i # j => order[i] # order[j]}

\* The first loop: a rule for every entry of GenClassMergeStr.
RECURSIVE GeneratedRules(_, _)
GeneratedRules(order, table) ==
    IF order = <<>> THEN <<>>
    ELSE ApplyRule(order[1], table[order[1]]) \o GeneratedRules(Tail(order), table)

\* What the call has read and written so far.
Tailwind(builder) ==
    [cache |-> cache, ClassMapStr |-> ClassMapStr, GenClassMergeStr |-> GenClassMergeStr,
     fnToCall |-> fnToCall, builder |-> builder, panic |-> FALSE]

\* The merger on a cache miss, inside the second loop: merge, store,
\* record, and the rule written with the result.
TailwindMiss(st, gendClass, trimmed, l, result) ==
    IF result = Panic
    THEN [st EXCEPT !.cache = l, !.fnToCall = "merger", !.panic = TRUE]
    ELSE [st EXCEPT !.cache = lruSet(l, trimmed, result),
                    !.ClassMapStr = RecordClassMap(@, trimmed, result),
                    !.GenClassMergeStr = RecordGenClass(@, trimmed, result),
                    !.fnToCall = "merger",
                    !.builder = @ \o ApplyRule(gendClass, result)]

TailwindGot(st, gendClass, trimmed, got, scan) ==
    IF got.val # <<>>
    THEN {[st EXCEPT !.cache = got.l, !.fnToCall = "merger",
                     !.builder = @ \o ApplyRule(gendClass, got.val)]}
    ELSE {TailwindMiss(st, gendClass, trimmed, got.l, emitResult(scan, order)) :
             order \in ScanOrders(scan)}

\* builder.WriteString(Merge(givenClasses)) and the writes around it.
TailwindMerge(st, gendClass, trimmed, l) ==
    IF trimmed = <<>>
    THEN {[st EXCEPT !.cache = l, !.fnToCall = "merger",
                     !.builder = @ \o ApplyRule(gendClass, <<>>)]}
    ELSE TailwindGot(st, gendClass, trimmed, lruGet(l, trimmed), scanClassList(trimmed))

\* The second loop over the entries of ClassMapStr that are left to visit:
\* an entry whose class name the first loop has written is skipped.
RECURSIVE GivenRules(_, _, _)
GivenRules(keys, gendClasses, st) ==
    IF keys = {} \/ st.panic THEN {st}
    ELSE UNION {
            IF st.ClassMapStr[given] \in gendClasses
            THEN GivenRules(keys \ {given}, gendClasses, st)
            ELSE UNION {GivenRules(keys \ {given}, gendClasses, next) :
                           next \in TailwindMerge(st, st.ClassMapStr[given],
                                                  TrimSpace(given),
                                                  IF st.fnToCall = "init" /\ st.cache.isNil
                                                  THEN Make(MaxCacheSize) ELSE st.cache)}
            : given \in keys}

\* The error GenerateTailwind wraps, and nil.
ErrAddingContent == <<"e", "r", "r", "o", "r", " ", "a", "d", "d", "i", "n", "g", " ", "t", "w", "e", "r", "g", "e", " ", "c", "o", "n", "t", "e", "n", "t">>

NoError == <<>>

\* replaceBetweenMarkers, then os.WriteFile unless it returned an error.
TailwindWrite(st, newContent) ==
    /\ cache' = st.cache
    /\ ClassMapStr' = st.ClassMapStr
    /\ GenClassMergeStr' = st.GenClassMergeStr
    /\ fnToCall' = st.fnToCall
    /\ crashed' = st.panic
    /\ IF st.panic
       THEN UNCHANGED <<file, trace>>
       ELSE IF newContent.err
            THEN /\ UNCHANGED file
                 /\ trace' = Append(trace, RuntimeCall("GenerateTailwind", <<>>, <<>>,
                                                       ErrAddingContent))
            ELSE /\ file' = [exists |-> TRUE, content |-> newContent.content]
                 /\ trace' = Append(trace, RuntimeCall("GenerateTailwind", <<>>, <<>>,
                                                       NoError))

GenerateTailwind ==
    /\ ~crashed
    /\ Len(trace) < MaxRuntimeCalls
    /\ \E order \in RangeOrders(DOMAIN GenClassMergeStr) :
          \E st \in GivenRules(DOMAIN ClassMapStr, DOMAIN GenClassMergeStr,
                               Tailwind(GeneratedRules(order, GenClassMergeStr))) :
              TailwindWrite(st, replaceBetweenMarkers(
                                    IF file.exists THEN file.content ELSE defaultContent,
                                    st.builder))
    /\ UNCHANGED <<input, pc, classList, merged, returned, nCalls, RuntimeClassMap, locks,
                   frame>>

InitTailwind == Package /\ input = <<>> /\ file \in Files

NextTailwind ==
    \/ \E classes \in WatchInputs : MergeCall(classes)
    \/ \E classMap \in WatchMaps : RegisterClasses(classMap)
    \/ GenerateTailwind

SpecTailwind == InitTailwind /\ [][NextTailwind]_vars

(***************************************************************************)
(* Merge on class lists of tokens with a postfix modifier.                 *)
(***************************************************************************)
PostfixTokens ==
    {
    \* "p-4/2"
    <<"p", "-", "4", "/", "2">>,
    \* "!p-4/2"
    <<"!", "p", "-", "4", "/", "2">>,
    \* "hover:p-4/2"
    <<"h", "o", "v", "e", "r", ":", "p", "-", "4", "/", "2">>,
    \* "a/b:p-4"
    <<"a", "/", "b", ":", "p", "-", "4">>,
    \* "p-8"
    <<"p", "-", "8">>,
    \* "!p-8"
    <<"!", "p", "-", "8">>
    }

PostfixInputs == {Join(toks, <<" ">>) : toks \in TokenLists(PostfixTokens)}

InitPostfix == Created /\ input \in PostfixInputs

SpecPostfix == InitPostfix /\ [][Next]_vars

(***************************************************************************)
(* getClassGroupID on base classes made of the trie's literal segments and *)
(* of values for its validators.                                           *)
(***************************************************************************)
MaxParts == 3

Segments ==
    {
    <<"b", "g">>,
    <<"f", "i", "x", "e", "d">>,
    <<"l", "e", "f", "t">>,
    <<"t", "o", "p">>,
    <<"o", "p", "a", "c", "i", "t", "y">>,
    <<"5", "0">>,
    <<"p">>,
    <<"4">>
    }

BaseClasses ==
    {Join(parts, <<ClassSeparator>>) : parts \in UNION {[1..n -> Segments] : n \in 1..MaxParts}}

\* getClassGroupID(input)
Classify ==
    /\ nCalls < MaxCalls
    /\ nCalls' = nCalls + 1
    /\ returned' = returned \cup {<<input, getClassGroupID(input)>>}
    /\ UNCHANGED <<file, input, fnToCall, cache, ClassMapStr, GenClassMergeStr, pc, classList,
                   merged, crashed, RuntimeClassMap, locks, frame, trace>>

InitLookup == Created /\ input \in BaseClasses

SpecLookup == InitLookup /\ [][Classify]_vars

(***************************************************************************)
(* Vocabulary of the properties: the tokens of an input, what the engine   *)
(* makes of one token, and the calls that returned.                        *)
(***************************************************************************)
Range(s) == {s[i] : i \in DOMAIN s}

\* The whitespace-delimited tokens of a class list.
TokensOf(s) == IF TrimSpace(s) = <<>> THEN <<>> ELSE Split(TrimSpace(s), " ")

\* The calls that returned a string.
Completed == {r \in returned : r[2] # Panic}

IsArbitraryVariant(modifier) == modifier # <<>> /\ modifier[1] = "["

\* The sorted modifiers without the empty strings sortModifiers puts in
\* front of a list of two or more.
SortedModifiers(modifiers) ==
    LET sorted == sortModifiers(modifiers)
    IN  IF sorted.panic THEN <<>>
        ELSE IF Len(modifiers) < 2 THEN sorted.modifiers
        ELSE SubSeq(sorted.modifiers, Len(modifiers) + 1, Len(sorted.modifiers))

\* What the engine makes of one token: whether the classifier recognizes
\* it and, if so, its base class, group, modifiers as written, important
\* flag, canonical modifier list (the sorted modifiers, the important marker
\* appended when the flag is set) and candidate key.
Analysis(class) ==
    LET sp == splitModifiers(class)
        id == getClassGroupID(cutPostfix(sp))
        sorted == SortedModifiers(sp.modifiers)
    IN  IF sp.panic \/ id.panic \/ ~id.isTwClass
        THEN [recognized |-> FALSE]
        ELSE [recognized |-> TRUE,
              baseClass |-> sp.baseClass,
              group |-> id.groupID,
              modifiers |-> sp.modifiers,
              important |-> sp.hasImportant,
              sorted |-> sorted,
              canonical |-> IF sp.hasImportant
                            THEN Append(sorted, <<ImportantModifier>>) ELSE sorted,
              key |-> id.groupID
                          \o KeySuffix(sortModifiers(sp.modifiers).modifiers, sp.hasImportant)]

RECURSIVE Analyses(_)
Analyses(toks) ==
    IF toks = <<>> THEN <<>> ELSE <<Analysis(toks[1])>> \o Analyses(Tail(toks))

Unrecognized(class) == ~Analysis(class).recognized

Count(x, s) == Cardinality({i \in DOMAIN s : s[i] = x})

IsPermutation(s, t) ==
    /\ Len(s) = Len(t)
    /\ \A x \in Range(s) \cup Range(t) : Count(x, s) = Count(x, t)

RECURSIVE IsSubsequence(_, _)
IsSubsequence(s, t) ==
    IF s = <<>> THEN TRUE
    ELSE IF t = <<>> THEN FALSE
    ELSE IF s[1] = t[1] THEN IsSubsequence(Tail(s), Tail(t))
    ELSE IsSubsequence(s, Tail(t))

\* The text of the token at i comes again after the token at j.
RepeatedAfter(toks, i, j) == \E k \in DOMAIN toks : k > j /\ toks[k] = toks[i]

(***************************************************************************)
(* C1.  Idempotence: Merge(Merge(T)) = Merge(T).  Whenever Merge was       *)
(* called on the result of an earlier call, it returned that result        *)
(* unchanged.                                                              *)
(***************************************************************************)
MergeIdempotent ==
    \A r1, r2 \in Completed : r2[1] = r1[2] => r2[2] = r1[2]

(***************************************************************************)
(* C2.  Determinism: all the calls Merge(T), concurrent ones included,     *)
(* return the same string.                                                 *)
(***************************************************************************)
MergeDeterministic ==
    \A r1, r2 \in returned : r1[1] = r2[1] => r1[2] = r2[2]

(***************************************************************************)
(* C3.  Order preservation: the tokens of the output are in the relative   *)
(* order they have in the input, i.e. the output is a subsequence of the   *)
(* input.                                                                  *)
(***************************************************************************)
OrderPreserved ==
    \A r \in Completed : IsSubsequence(TokensOf(r[2]), TokensOf(r[1]))

(***************************************************************************)
(* C4.  Last occurrence wins: of two recognized tokens with the same group *)
(* and the same canonical modifier list, the earlier one is not in the     *)
(* output (unless the same text comes again after it), and the later one   *)
(* is in the output when it ends the input; Merge("p-4 p-8") = "p-8".      *)
(***************************************************************************)
SameKeyPair(an, i, j) ==
    /\ i < j
    /\ an[i].recognized /\ an[j].recognized
    /\ an[i].group = an[j].group
    /\ an[i].canonical = an[j].canonical

LastOccurrenceWins ==
    \A r \in Completed :
        LET toks == TokensOf(r[1])
            an == Analyses(toks)
            out == Range(TokensOf(r[2]))
        IN  /\ \A i, j \in DOMAIN toks :
                   SameKeyPair(an, i, j) =>
                       /\ toks[i] \in out => RepeatedAfter(toks, i, i)
                       /\ j = Len(toks) => toks[j] \in out
            /\ r[1] = <<"p", "-", "4", " ", "p", "-", "8">> => r[2] = <<"p", "-", "8">>

LastOccurrenceWinsReached ==
    <<<<"p", "-", "4", " ", "p", "-", "8">>, <<"p", "-", "8">>>> \in returned

(***************************************************************************)
(* C5.  Conflict erasure: a recognized token of group G removes every      *)
(* earlier token whose group the conflict table lists under G and whose    *)
(* canonical modifier list is the same: such a token is in the output only *)
(* when its text comes again later; Merge("px-2 p-4") = "p-4".             *)
(***************************************************************************)
ConflictPair(an, i, j) ==
    /\ i < j
    /\ an[i].recognized /\ an[j].recognized
    /\ an[i].group \in Range(ConflictsOf(an[j].group))
    /\ an[i].canonical = an[j].canonical

ConflictErased ==
    \A r \in Completed :
        LET toks == TokensOf(r[1])
            an == Analyses(toks)
            out == Range(TokensOf(r[2]))
        IN  /\ \A i, j \in DOMAIN toks :
                   ConflictPair(an, i, j) => (toks[i] \in out => RepeatedAfter(toks, i, j))
            /\ r[1] = <<"p", "x", "-", "2", " ", "p", "-", "4">> => r[2] = <<"p", "-", "4">>

ConflictErasedReached ==
    <<<<"p", "x", "-", "2", " ", "p", "-", "4">>, <<"p", "-", "4">>>> \in returned

(***************************************************************************)
(* C6.  Conflict direction: in an input of two recognized tokens of        *)
(* different groups G then H, G not listed in the conflict table under H,  *)
(* both tokens are in the output.                                          *)
(***************************************************************************)
ConflictDirectional ==
    \A r \in Completed :
        LET toks == TokensOf(r[1])
            an == Analyses(toks)
            out == Range(TokensOf(r[2]))
        IN  ( /\ Len(toks) = 2
              /\ an[1].recognized /\ an[2].recognized
              /\ an[1].group # an[2].group
              /\ an[1].group \notin Range(ConflictsOf(an[2].group)) )
            => Range(toks) \subseteq out

(***************************************************************************)
(* C7.  Variant independence: in an input of two recognized tokens whose   *)
(* canonical modifier lists differ, both tokens are in the output.         *)
(***************************************************************************)
VariantsIndependent ==
    \A r \in Completed :
        LET toks == TokensOf(r[1])
            an == Analyses(toks)
            out == Range(TokensOf(r[2]))
        IN  ( /\ Len(toks) = 2
              /\ an[1].recognized /\ an[2].recognized
              /\ an[1].canonical # an[2].canonical )
            => Range(toks) \subseteq out

(***************************************************************************)
(* C8.  Modifier canonicalization.  Two tokens that differ only in the     *)
(* order of their modifiers, none of them an arbitrary variant, get the    *)
(* same candidate key, so in one input the later replaces the earlier; a   *)
(* modifier never moves across an arbitrary variant, and between two       *)
(* arbitrary variants the modifiers are sorted.                            *)
(***************************************************************************)
\* Two recognized tokens with the same base class and important flag and
\* the same modifiers in some order, none of them an arbitrary variant.
ModifiersPermuted(a, b) ==
    /\ a.recognized /\ b.recognized
    /\ a.baseClass = b.baseClass
    /\ a.important = b.important
    /\ IsPermutation(a.modifiers, b.modifiers)
    /\ \A m \in Range(a.modifiers) : ~IsArbitraryVariant(m)

\* No arbitrary variant of m lies at p, at q or between them.
SameSide(m, p, q) ==
    \A k \in DOMAIN m : (k >= p /\ k <= q) \/ (k >= q /\ k <= p) => ~IsArbitraryVariant(m[k])

\* c is m with every arbitrary variant in its place and the modifiers
\* between the arbitrary variants sorted among themselves.
PivotsKept(m, c) ==
    /\ IsPermutation(m, c)
    /\ \A p \in DOMAIN m : IsArbitraryVariant(m[p]) => c[p] = m[p]
    /\ \A p \in DOMAIN m :
           ~IsArbitraryVariant(m[p]) => \E q \in DOMAIN m : c[q] = m[p] /\ SameSide(m, p, q)
    /\ \A p, q \in DOMAIN m : p < q /\ SameSide(c, p, q) => ~StrLess(c[q], c[p])

\* The later of two tokens with permuted modifiers has the key of the
\* earlier and replaces it.
PermutedReplaced(toks, an, out) ==
    \A i, j \in DOMAIN toks :
        i < j /\ ModifiersPermuted(an[i], an[j])
            => /\ an[i].key = an[j].key
               /\ toks[i] \in out => RepeatedAfter(toks, i, i)

PivotsKeptIn(an) ==
    \A i \in DOMAIN an : an[i].recognized => PivotsKept(an[i].modifiers, an[i].sorted)

\* As stated: two one-token inputs with permuted modifiers merge to the
\* same string, the one in the canonical modifier order.
ModifiersNormalized ==
    \A r \in Completed :
        LET toks == TokensOf(r[1])
            an == Analyses(toks)
            out == Range(TokensOf(r[2]))
        IN  /\ PermutedReplaced(toks, an, out)
            /\ PivotsKeptIn(an)
            /\ Len(toks) = 1
                   => \A b \in VariantTokens :
                          ModifiersPermuted(an[1], Analysis(b))
                              => \A order \in MergeOrders(b) : mergeClassList(b, order) = r[2]

\* C8 as the code has it: the candidate key is canonical, the output is
\* not.  Two tokens with permuted modifiers get the same candidate key and
\* the later replaces the earlier in one input, no modifier moves across an
\* arbitrary variant, and the output holds each surviving token in its own
\* text, its modifiers as written.
ModifiersCanonicalInKey ==
    \A r \in Completed :
        LET toks == TokensOf(r[1])
            an == Analyses(toks)
            out == Range(TokensOf(r[2]))
        IN  /\ PermutedReplaced(toks, an, out)
            /\ PivotsKeptIn(an)
            /\ out \subseteq Range(toks)
            /\ Len(toks) = 1 /\ an[1].recognized => r[2] = toks[1]

ModifiersCanonicalInKeyReached ==
    <<<<"f", "o", "c", "u", "s", ":", "h", "o", "v", "e", "r", ":", "b", "g", "-", "r", "e", "d", "-", "5", "0", "0", " ", "h", "o", "v", "e", "r", ":", "f", "o", "c", "u", "s", ":", "b", "g", "-", "r", "e", "d", "-", "5", "0", "0">>, <<"h", "o", "v", "e", "r", ":", "f", "o", "c", "u", "s", ":", "b", "g", "-", "r", "e", "d", "-", "5", "0", "0">>>>
        \in returned

MergeNeverAborts ==
    /\ ~crashed
    /\ \A r \in returned : TrimSpace(r[1]) # <<>> => r[2] # Panic

(***************************************************************************)
(* Vocabulary of the cache properties.                                     *)
(***************************************************************************)
\* The keys of the linked nodes from l.tail.next on, following next until
\* the head sentinel, a nil pointer or the end of the fuel: the order in
\* which eviction would choose them.
RECURSIVE ListFrom(_, _, _)
ListFrom(l, n, fuel) ==
    IF n = Nil \/ n = l.head \/ fuel = 0 THEN <<>>
    ELSE <<l.nodes[n].key>> \o ListFrom(l, l.nodes[n].next, fuel - 1)

EvictionOrder(l) == ListFrom(l, l.nodes[l.tail].next, Len(l.nodes))

\* The keys Get finds.
KeysHeld(l) == DOMAIN l.cache

\* The calls of the trace are Sets with distinct keys.
DistinctSets ==
    /\ \A i \in DOMAIN trace : trace[i].op = "set"
    /\ \A i, j \in DOMAIN trace : i # j => trace[i].key # trace[j].key

(***************************************************************************)
(* C11.  LRU eviction: after Set was called with N + 1 distinct keys on a  *)
(* cache of capacity N >= 1, the key set first is absent and Get misses    *)
(* it, and the N other keys are present.                                   *)
(***************************************************************************)
LeastRecentEvicted ==
    ( /\ ~cache.isNil
      /\ cache.maxCapacity >= 1
      /\ Len(trace) = cache.maxCapacity + 1
      /\ DistinctSets )
    => /\ trace[1].key \notin KeysHeld(cache)
       /\ lruGet(cache, trace[1].key).val = <<>>
       /\ \A i \in 2..Len(trace) : trace[i].key \in KeysHeld(cache)

(***************************************************************************)
(* C12.  Bounded cache: a cache made with capacity N >= 1 never holds more *)
(* than N entries, in its map or in its list.                              *)
(***************************************************************************)
CacheBounded ==
    (~cache.isNil /\ cache.maxCapacity >= 1)
    => /\ Cardinality(KeysHeld(cache)) <= cache.maxCapacity
       /\ Len(EvictionOrder(cache)) <= cache.maxCapacity

(***************************************************************************)
(* C13.  Cache thread safety: under every interleaving of Get and Set      *)
(* calls by concurrent callers no call dereferences a nil neighbour or     *)
(* races with another, and whenever no call is in progress the keys of the *)
(* map are exactly the keys of the linked nodes.                           *)
(***************************************************************************)
CacheThreadSafe ==
    /\ ~crashed
    /\ (~cache.isNil /\ \A t \in Threads : frame[t].op = "none")
       => /\ KeysHeld(cache) = Range(EvictionOrder(cache))
          /\ Len(EvictionOrder(cache)) = Cardinality(KeysHeld(cache))

(***************************************************************************)
(* C14.  Unambiguous miss: what Get returns for a key that is not in the   *)
(* cache differs from what it returns for a key that is, in particular for *)
(* a key stored with the empty string.                                     *)
(***************************************************************************)
MissUnambiguous ==
    \A i, j \in DOMAIN trace :
        ( /\ trace[i].op = "get" /\ ~trace[i].found
          /\ trace[j].op = "get" /\ trace[j].found )
        => trace[i].ret # trace[j].ret

(***************************************************************************)
(* C15.  Capacity validation: no cache exists with a maximum capacity of   *)
(* zero or less.                                                           *)
(***************************************************************************)
CapacityValidated == ~cache.isNil => cache.maxCapacity >= 1

(***************************************************************************)
(* Vocabulary of the runtime table properties.                             *)
(***************************************************************************)
\* No RegisterClasses or ClearRuntimeMap call ended after call i and before
\* call j.
TableKept(i, j) ==
    \A k \in (i + 1)..(j - 1) : trace[k].op \notin {"register", "clear"}

(***************************************************************************)
(* C16.  Short-name stability: two RuntimeGenerate calls with the same raw *)
(* input return the same identifier when no RegisterClasses or             *)
(* ClearRuntimeMap call happens between them.                              *)
(***************************************************************************)
ShortNameStable ==
    \A i, j \in DOMAIN trace :
        ( /\ i < j
          /\ trace[i].op = "generate" /\ trace[j].op = "generate"
          /\ trace[i].key = trace[j].key
          /\ TableKept(i, j) )
        => trace[i].ret = trace[j].ret

(***************************************************************************)
(* C17.  Returned identifier is the recorded one: after Merge and          *)
(* RuntimeGenerate calls only, when RuntimeGenerate(x) has just returned   *)
(* n, GetRuntimeMapping()[x] is n.                                         *)
(***************************************************************************)
ReturnedIsRecorded ==
    ( /\ trace # <<>>
      /\ \A i \in DOMAIN trace : trace[i].op = "generate" )
    => /\ trace[Len(trace)].key \in DOMAIN GetRuntimeMapping
       /\ GetRuntimeMapping[trace[Len(trace)].key] = trace[Len(trace)].ret

(***************************************************************************)
(* C18.  RegisterClasses(m) sets the runtime mapping of every key of m and *)
(* leaves the other entries unchanged, and a RuntimeGenerate(k) that       *)
(* follows it, with no later RegisterClasses or ClearRuntimeMap call in    *)
(* between, returns m[k] for every key k of m.                             *)
(***************************************************************************)
RegisteredNameReturned ==
    /\ ( trace # <<>> /\ trace[Len(trace)].op = "register" )
       => \A k \in DOMAIN trace[Len(trace)].classMap :
             /\ k \in DOMAIN GetRuntimeMapping
             /\ GetRuntimeMapping[k] = trace[Len(trace)].classMap[k]
    /\ \A i, j \in DOMAIN trace :
          ( /\ i < j
            /\ trace[i].op = "register" /\ trace[j].op = "generate"
            /\ trace[j].key \in DOMAIN trace[i].classMap
            /\ TableKept(i, j) )
          => trace[j].ret = trace[i].classMap[trace[j].key]

(***************************************************************************)
(* C19.  Lock discipline of the shared tables: every caller that reads or  *)
(* writes ClassMapStr, GenClassMergeStr or RuntimeClassMap holds a mutex   *)
(* while it does, and no two callers are at the same time inside sections  *)
(* that touch the same table when one of them writes it.                   *)
(***************************************************************************)
LockDiscipline ==
    /\ \A t \in Threads : Accessing(t) => Section(frame[t].at).mutex # "none"
    /\ \A t, u \in Threads :
          (t # u /\ Accessing(t) /\ Accessing(u))
          => ~Conflict(frame[t].at, frame[u].at)

(***************************************************************************)
(* C20.  Get refreshes recency: after Get found the key k, and as long as  *)
(* no call on another key followed, k is held and is the last key eviction *)
(* would choose.                                                           *)
(***************************************************************************)
GetRefreshesRecency ==
    \A i \in DOMAIN trace :
        ( /\ trace[i].op = "get" /\ trace[i].found
          /\ \A j \in DOMAIN trace : j > i => trace[j].key = trace[i].key )
        => /\ trace[i].key \in KeysHeld(cache)
           /\ EvictionOrder(cache) # <<>>
           /\ EvictionOrder(cache)[Len(EvictionOrder(cache))] = trace[i].key

\* Get found a key after a Set of another key.
GetRefreshesRecencyReached ==
    /\ Len(trace) >= 3
    /\ trace[Len(trace)].op = "get" /\ trace[Len(trace)].found
    /\ trace[Len(trace) - 1].op = "set"
    /\ trace[Len(trace) - 1].key # trace[Len(trace)].key

(***************************************************************************)
(* Vocabulary of the arbitrary-property properties.                        *)
(***************************************************************************)
\* The base class has the shape [property:value] with a property.
IsArbitraryProperty(baseClass) ==
    /\ Len(baseClass) >= 3
    /\ baseClass[1] = "[" /\ baseClass[Len(baseClass)] = "]"
    /\ IndexChar(baseClass, ":") > 1

\* The property of a base class of that shape.
PropertyOf(baseClass) == Slice(baseClass, 1, IndexChar(baseClass, ":"))

\* The group identifiers of a trie node and of the nodes below it.
RECURSIVE GroupsBelow(_)
GroupsBelow(part) ==
    ({part.ClassGroupID} \cup {part.Validators[k].ClassGroupID : k \in DOMAIN part.Validators})
    \cup UNION {GroupsBelow(part.NextPart[p]) : p \in DOMAIN part.NextPart}

\* The group identifiers of the trie and of the conflict table.
ConfiguredGroups ==
    (GroupsBelow(ClassGroups) \cup DOMAIN ConflictingClassGroups)
    \cup UNION {Range(ConflictingClassGroups[g]) : g \in DOMAIN ConflictingClassGroups}

\* The token at i is an arbitrary-property token.
ArbitraryAt(an, i) == an[i].recognized /\ IsArbitraryProperty(an[i].baseClass)

(***************************************************************************)
(* C21.  Arbitrary-property tokens: a token whose base class has the shape *)
(* [property:value] is in the group "arbitrary.." + property, which is no  *)
(* group of the trie or conflict table; of two such tokens with the same   *)
(* property and modifiers only the later one is kept; two such tokens with *)
(* different properties are both kept.                                     *)
(***************************************************************************)
ArbitraryPropertyGrouped ==
    \A r \in Completed :
        LET toks == TokensOf(r[1])
            an == Analyses(toks)
            out == Range(TokensOf(r[2]))
        IN  /\ \A i \in DOMAIN toks :
                  ( /\ ~splitModifiers(toks[i]).panic
                    /\ IsArbitraryProperty(splitModifiers(toks[i]).baseClass) )
                  => /\ an[i].recognized
                     /\ an[i].group = <<"a", "r", "b", "i", "t", "r", "a", "r", "y", ".", ".">> \o PropertyOf(an[i].baseClass)
                     /\ an[i].group \notin ConfiguredGroups
            /\ \A i, j \in DOMAIN toks :
                  ( /\ i < j /\ ArbitraryAt(an, i) /\ ArbitraryAt(an, j)
                    /\ PropertyOf(an[i].baseClass) = PropertyOf(an[j].baseClass)
                    /\ an[i].canonical = an[j].canonical
                    /\ toks[i] # toks[j] /\ ~RepeatedAfter(toks, i, j) )
                  => toks[i] \notin out
            /\ ( /\ Len(toks) = 2 /\ ArbitraryAt(an, 1) /\ ArbitraryAt(an, 2)
                 /\ PropertyOf(an[1].baseClass) # PropertyOf(an[2].baseClass) )
               => (toks[1] \in out /\ toks[2] \in out)

(***************************************************************************)
(* Vocabulary of the marker properties.                                    *)
(***************************************************************************)
\* The offset of the first end marker that begins after the begin marker at
\* b, or -1.
EndAfter(content, b) ==
    LET from == b + Len(twergeBeginMarker)
        e == Index(Slice(content, from, Len(content)), twergeEndMarker)
    IN  IF e = -1 THEN -1 ELSE e + from

\* The offset after the line that holds offset i: after the first line
\* feed at or after i, or after a carriage return that no line feed
\* follows, or the end of the content.
RECURSIVE AfterLine(_, _)
AfterLine(content, i) ==
    IF i >= Len(content) THEN Len(content)
    ELSE IF content[i + 1] = "\n" THEN i + 1
    ELSE IF content[i + 1] = "\r" /\ (i + 1 >= Len(content) \/ content[i + 2] # "\n")
    THEN i + 1
    ELSE AfterLine(content, i + 1)

\* s without its line feeds.
RECURSIVE NoLineFeeds(_)
NoLineFeeds(s) ==
    IF s = <<>> THEN <<>>
    ELSE IF s[1] = "\n" THEN NoLineFeeds(Tail(s))
    ELSE <<s[1]>> \o NoLineFeeds(Tail(s))

\* The splice of replacement into content whose begin marker is at b and
\* whose end marker is at e; a line feed may end the replacement.
Spliced(content, replacement, b, e) ==
    LET prefix == Slice(content, 0, AfterLine(content, b + Len(twergeBeginMarker)))
        rest == Slice(content, e, Len(content))
    IN  {(prefix \o replacement) \o rest, ((prefix \o replacement) \o <<"\n">>) \o rest}

(***************************************************************************)
(* C22.  Marker splice frame: for content with a begin marker followed by  *)
(* an end marker, replaceBetweenMarkers returns without error; when the    *)
(* end marker lies after the begin-marker line, the result is the content  *)
(* up to the end of that line, the replacement, and the content from the   *)
(* end marker on.  For content without begin marker the result is the      *)
(* content followed by begin marker, replacement and end marker.           *)
(***************************************************************************)
MarkerSplice ==
    \A r \in returned :
        LET content == r[1][1]
            replacement == r[1][2]
            b == Index(content, twergeBeginMarker)
            e == EndAfter(content, b)
        IN  /\ (b # -1 /\ e # -1)
               => /\ ~r[2].err
                  /\ e >= AfterLine(content, b + Len(twergeBeginMarker))
                     => r[2].content \in Spliced(content, replacement, b, e)
            /\ b = -1
               => /\ ~r[2].err
                  /\ Len(r[2].content) >= Len(content)
                  /\ Slice(r[2].content, 0, Len(content)) = content
                  /\ NoLineFeeds(Slice(r[2].content, Len(content), Len(r[2].content)))
                        = (twergeBeginMarker \o replacement) \o twergeEndMarker

\* C27: every Merge(T) call that returns a string different from the trimmed
\* T leaves ClassMapStr with an entry for the trimmed T, and GenClassMergeStr
\* maps that entry's class name to the returned string.
MergeRecordsMerged ==
    [][\A T \in RuntimeInputs :
          MergeCall(T) =>
              \A r \in returned' :
                  (r[1] = T /\ r[2] # Panic /\ r[2] # TrimSpace(T)) =>
                      /\ TrimSpace(T) \in DOMAIN ClassMapStr'
                      /\ ClassMapStr'[TrimSpace(T)] \in DOMAIN GenClassMergeStr'
                      /\ GenClassMergeStr'[ClassMapStr'[TrimSpace(T)]] = r[2]]_vars

\* C25: the cache is set up once: a thread assigns a new cache only while
\* no cache has been assigned, so the instance the calls use is never
\* replaced.
SingleInitialization ==
    [][\A t \in Threads : InitNewCache(t) => cache.isNil]_vars

\* C26: no thread requests a lock it already holds, and every call that has
\* started eventually returns.
DeadlockFree ==
    /\ [](\A t \in Threads :
            (frame[t].op # "none" /\ Head(frame[t].code) \in {"RLock", "Lock"})
                => Holds(t, "runtimeMapMutex") = {})
    /\ \A t \in Threads : (frame[t].op # "none") ~> (frame[t].op = "none")

\* C28: when ExportCSSWithMap restores the runtime mapping, the map it had
\* put in its place - the caller's map - holds exactly what the caller
\* passed, and the restored mapping has every entry that the mapping it
\* replaces holds beyond the caller's.
ExportIsTemporary ==
    [][\A t \in Threads :
          (/\ frame[t].op = "ExportCSSWithMap"
           /\ Head(frame[t].code) = "Restore"
           /\ frame'[t] # frame[t])
          => /\ RuntimeClassMap = frame[t].classMap
             /\ \A k \in DOMAIN RuntimeClassMap \ DOMAIN frame[t].classMap :
                   k \in DOMAIN RuntimeClassMap']_vars

\* The content has the begin marker and no end marker anywhere after it.
MissingEndMarker(content) ==
    /\ Index(content, twergeBeginMarker) # -1
    /\ Index(Slice(content, Index(content, twergeBeginMarker) + Len(twergeBeginMarker),
                   Len(content)),
             twergeEndMarker) = -1

\* The step is a call of GenerateTailwind that returned.
TailwindReturned ==
    /\ Len(trace') = Len(trace) + 1
    /\ trace'[Len(trace')].op = "GenerateTailwind"

\* C29: when the stylesheet has the begin marker and no end marker after
\* it, replaceBetweenMarkers returns an error and no content whatever the
\* replacement, and GenerateTailwind returns the error and leaves the file
\* as it was.
MissingEndKeepsFile ==
    [][(TailwindReturned /\ file.exists /\ MissingEndMarker(file.content))
          => /\ \A replacement \in Replacements :
                   replaceBetweenMarkers(file.content, replacement)
                       = [content |-> <<>>, err |-> TRUE]
             /\ trace'[Len(trace')].ret = ErrAddingContent
             /\ file' = file]_vars

\* GenerateTailwind has returned the error on a stylesheet without end
\* marker, after Merge and RegisterClasses had rules for it to write.
MissingEndKeepsFileReached ==
    /\ trace # <<>>
    /\ trace[Len(trace)].op = "GenerateTailwind"
    /\ trace[Len(trace)].ret = ErrAddingContent
    /\ file.exists
    /\ MissingEndMarker(file.content)
    /\ GenClassMergeStr # <<>>
    /\ \E given \in DOMAIN ClassMapStr : ClassMapStr[given] \notin DOMAIN GenClassMergeStr

\* The 0-based offset of the last postfix character of s outside brackets,
\* or -1: the scan from offset i on, at bracket depth depth, last found so far.
RECURSIVE LastPostfixFrom(_, _, _, _)
LastPostfixFrom(s, i, depth, last) ==
    IF i >= Len(s) THEN last
    ELSE IF s[i + 1] = "[" THEN LastPostfixFrom(s, i + 1, depth + 1, last)
    ELSE IF s[i + 1] = "]" THEN LastPostfixFrom(s, i + 1, depth - 1, last)
    ELSE IF depth = 0 /\ s[i + 1] = PostfixModifier THEN LastPostfixFrom(s, i + 1, depth, i)
    ELSE LastPostfixFrom(s, i + 1, depth, last)

\* The cut the splitter returned for a token is right for its base class.
CutInBaseClass(sp) ==
    \/ sp.panic
    \/ /\ sp.maybePostfixModPosition # -1
          => sp.maybePostfixModPosition = LastPostfixFrom(sp.baseClass, 0, 0, -1)
       /\ LastPostfixFrom(sp.baseClass, 0, 0, -1) = -1 => sp.maybePostfixModPosition = -1

\* C23: for every token of a merged class list, a postfix cut index the
\* splitter returns is the offset, in the base class it returns, of the
\* last postfix character outside brackets, and a token whose base class
\* has no such character gets no cut.
PostfixCutInBaseClass ==
    \A r \in returned :
        \A i \in 1..Len(TokensOf(r[1])) : CutInBaseClass(splitModifiers(TokensOf(r[1])[i]))

\* strings.Split(baseClass, "-") without an empty first part.
ClassPartsOf(baseClass) ==
    IF Split(baseClass, ClassSeparator)[1] = <<>>
    THEN Tail(Split(baseClass, ClassSeparator))
    ELSE Split(baseClass, ClassSeparator)

\* The nodes the literal segments lead through, from the root: the node
\* after path[k] is the child for the k-th segment, as long as the node has
\* children and a segment is left.
RECURSIVE LiteralPath(_, _)
LiteralPath(classParts, path) ==
    IF Len(path) <= Len(classParts) /\ DOMAIN path[Len(path)].NextPart # {}
    THEN LiteralPath(classParts,
                     Append(path, NextPartOf(path[Len(path)], classParts[Len(path)])))
    ELSE path

\* found is what the validators of a node decide on the remaining class:
\* the group of the first one, in declared order, that accepts it, else no
\* group.
ValidatorsDecide(validators, remainingClass, found) ==
    \/ \E k \in 1..Len(validators) :
          /\ ApplyValidator(validators[k].Fn, remainingClass)
          /\ \A j \in 1..(k - 1) : ~ApplyValidator(validators[j].Fn, remainingClass)
          /\ found = TwClass(validators[k].ClassGroupID)
    \/ /\ \A k \in 1..Len(validators) : ~ApplyValidator(validators[k].Fn, remainingClass)
       /\ found = NotTwClass

\* The literal descent from node with the segments from the i-th on (0-based).
Descent(classParts, i, node) ==
    IF DOMAIN node.NextPart # {}
    THEN getClassGroupIDRecursive(classParts, i + 1, NextPartOf(node, classParts[i + 1]))
    ELSE NotTwClass

\* The lookup at node with the segments from the i-th on keeps the order:
\* own group when no segment is left, else the descent, else the validators.
KeepsPrecedence(classParts, i, node, found) ==
    IF i >= Len(classParts)
    THEN found = IF node.ClassGroupID # <<>> THEN TwClass(node.ClassGroupID) ELSE NotTwClass
    ELSE IF Descent(classParts, i, node).isTwClass
    THEN found = Descent(classParts, i, node)
    ELSE ValidatorsDecide(node.Validators,
                          Join(SubSeq(classParts, i + 1, Len(classParts)), <<ClassSeparator>>),
                          found)

PrecedenceOnPath(classParts, path) ==
    \A k \in 1..Len(path) :
        KeepsPrecedence(classParts, k - 1, path[k],
                        getClassGroupIDRecursive(classParts, k - 1, path[k]))

DescentBeforeValidators(classParts, path, found) ==
    \E k \in 1..Len(path) :
        /\ k - 1 < Len(classParts)
        /\ Descent(classParts, k - 1, path[k]).isTwClass
        /\ \E v \in 1..Len(path[k].Validators) :
              /\ ApplyValidator(path[k].Validators[v].Fn,
                                Join(SubSeq(classParts, k, Len(classParts)), <<ClassSeparator>>))
              /\ path[k].Validators[v].ClassGroupID # Descent(classParts, k - 1, path[k]).groupID
        /\ found = Descent(classParts, k - 1, path[k])

StoredResults ==
    IF cache.isNil THEN {}
    ELSE {cache.nodes[cache.cache[key]].val : key \in DOMAIN cache.cache}

LastToken(s) == TokensOf(s)[Len(TokensOf(s))]

\* C30: a call with a class list that is not blank, when it returns, returns
\* a string that is not empty and has the last token of the class list among
\* its tokens, and the cache holds no empty string.
NonEmptyResult ==
    /\ \A r \in Completed :
          TrimSpace(r[1]) # <<>>
             => /\ r[2] # <<>>
                /\ LastToken(r[1]) \in Range(TokensOf(r[2]))
    /\ <<>> \notin StoredResults

\* A call returned fewer tokens than it was given, its last one among them,
\* and the cache holds what it returned.
NonEmptyResultReached ==
    \E r \in Completed :
        /\ Len(TokensOf(r[2])) < Len(TokensOf(r[1]))
        /\ LastToken(r[1]) \in Range(TokensOf(r[2]))
        /\ r[2] \in StoredResults

====
